---------------------------- MODULE Spec2Model ----------------------------
(***************************************************************************)
(* A model of skalu (src/skalu.py): the horizontal-line detector, the      *)
(* rectangle detector and the aggregators process_pdf,                     *)
(* process_single_image and process_folder, and the job server built on   *)
(* them (src/app.py, src/src/skalu/web/flask_app.py).                      *)
(*                                                                         *)
(* Images are two-level rasters: a pixel is either dark (0) or white       *)
(* (255).  image.dark is the set of dark pixels <<x, y>>, origin top-left. *)
(* Ratios are decimal fractions kept as integers: a line-width ratio r     *)
(* stands for r/10, an area ratio a for a/1000.  int(ratio * n) is then    *)
(* (r * n) \div 10; on the ranges used here the double-precision product   *)
(* truncates to the same integer.                                          *)
(***************************************************************************)
EXTENDS Integers, Sequences, FiniteSets, TLC

VARIABLES call, scene, image, params, pc, lines, rectangles, raised,
          doc, image_file, folder, save_visualization,
          page_num, pages, calculated_dpi, imgs, result,
          progress, output_json, ret, run, first,
          progress_callback, debug_dir, artifacts, input_folder,
          effective_bounds,
          request, jobs, jobs_lock, thread, workdirs, invoked

\* The state of the job server: the upload of the POST /analyze request,
\* the registry, its lock, the threads, the temporary directories, and
\* the number of invocations of the job's progress callback so far.
webVars == <<request, jobs, jobs_lock, thread, workdirs, invoked>>

\* What the aggregators read and write beyond the detectors' variables.
aggVars == <<doc, image_file, folder, save_visualization,
             page_num, pages, calculated_dpi, imgs, result,
             progress, output_json, ret, run, first,
             progress_callback, input_folder, effective_bounds, webVars>>

vars == <<call, scene, image, params, pc, lines, rectangles, raised, aggVars,
          debug_dir, artifacts>>

(***************************************************************************)
(* Bounds of the model.                                                    *)
(***************************************************************************)
MaxW == 10
MaxH == 3
MaxLineHeight == 2

Max(a, b) == IF a >= b THEN a ELSE b
Abs(a) == IF a >= 0 THEN a ELSE -a

SetMin(S) == CHOOSE a \in S : \A b \in S : a <= b
SetMax(S) == CHOOSE a \in S : \A b \in S : a >= b

Reverse(s) == [i \in 1..Len(s) |-> s[Len(s) + 1 - i]]

Pixels(w, h) == (0..(w - 1)) \X (0..(h - 1))

(***************************************************************************)
(* Binarizer (skalu.py 41-65).  On a two-level raster Otsu's threshold is  *)
(* 0 (the first grey level at which the between-class variance is          *)
(* maximal, or the initial 0 when the raster is uniform), so               *)
(* THRESH_BINARY_INV marks exactly the pixels of value 0.  The adaptive    *)
(* threshold marks a pixel when it is at least 8 below the weighted mean   *)
(* of its 15x15 block: never a white pixel, and a dark one only when       *)
(* white pixels lie in its block.                                          *)
(***************************************************************************)
threshold_otsu_inv(img) == img.dark

adaptiveThreshold_inv(img) ==
    {p \in img.dark :
        \E q \in Pixels(img.w, img.h) \ img.dark :
            Abs(p[1] - q[1]) <= 7 /\ Abs(p[2] - q[2]) <= 7}

bitwise_or(a, b) == a \cup b

(***************************************************************************)
(* cv2.morphologyEx(bw, MORPH_OPEN, k x 1 rectangle, iterations=1): an     *)
(* erosion followed by a dilation, both with the kernel anchored at        *)
(* k \div 2 and both reading src(x + i - anchor) for i in 0..k-1.  Pixels  *)
(* outside the raster do not constrain the erosion and do not feed the     *)
(* dilation (the default border value).  A 1x1 kernel copies the raster.   *)
(***************************************************************************)
erode(S, k, w, h) ==
    {p \in S :
        \A i \in 0..(k - 1) :
            LET x == p[1] + i - (k \div 2)
            IN  (x >= 0 /\ x < w) => <<x, p[2]>> \in S}

dilate_unclipped(S, k, w, h) ==
    {<<q[1] - i + (k \div 2), q[2]>> : q \in S, i \in 0..(k - 1)}

dilate(S, k, w, h) ==
    {p \in Pixels(w, h) :
        \E i \in 0..(k - 1) : <<p[1] + i - (k \div 2), p[2]>> \in S}

morphologyEx_open(S, k, w, h) ==
    IF k = 1 THEN S ELSE dilate(erode(S, k, w, h), k, w, h)

(***************************************************************************)
(* cv2.findContours(opened, RETR_EXTERNAL, CHAIN_APPROX_SIMPLE): one       *)
(* contour per 8-connected component of the foreground.  The raster is     *)
(* scanned row by row, left to right, and the contours are returned last   *)
(* found first.  With fewer than five rows no component can lie inside a   *)
(* hole of another, so every component is an external one.                 *)
(***************************************************************************)
Adjacent8(p, q) ==
    p # q /\ Abs(p[1] - q[1]) <= 1 /\ Abs(p[2] - q[2]) <= 1

RECURSIVE Flood(_, _)
Flood(seed, S) ==
    LET nxt == seed \cup {q \in S : \E p \in seed : Adjacent8(p, q)}
    IN  IF nxt = seed THEN seed ELSE Flood(nxt, S)

RasterFirst(S) ==
    CHOOSE p \in S :
        \A q \in S : p[2] < q[2] \/ (p[2] = q[2] /\ p[1] <= q[1])

RECURSIVE ScanComponents(_)
ScanComponents(S) ==
    IF S = {} THEN <<>>
    ELSE LET c == Flood({RasterFirst(S)}, S)
         IN  <<c>> \o ScanComponents(S \ c)

findContours(S) == Reverse(ScanComponents(S))

boundingRect(c) ==
    LET xs == {p[1] : p \in c}
        ys == {p[2] : p \in c}
    IN  [x |-> SetMin(xs), y |-> SetMin(ys),
         width |-> SetMax(xs) - SetMin(xs) + 1,
         height |-> SetMax(ys) - SetMin(ys) + 1]

(***************************************************************************)
(* detect_horizontal_lines (skalu.py 11-87).                               *)
(***************************************************************************)
orig_min_width(min_line_width_ratio, w) == (min_line_width_ratio * w) \div 10

open_width_unguarded(omw) == (omw * 8) \div 10

open_width_full(omw) == Max(omw, 1)

open_width(omw) == Max((omw * 8) \div 10, 1)

\* horiz_kern = cv2.getStructuringElement(cv2.MORPH_RECT, (open_width, 1)):
\* the width and the height of the kernel.
horiz_kern(img, min_line_width_ratio) ==
    <<open_width(orig_min_width(min_line_width_ratio, img.w)), 1>>

line_kept_relaxed(cw, ch, omw, max_line_height) ==
    cw >= (omw * 8) \div 10 /\ ch <= max_line_height

line_kept(cw, ch, omw, max_line_height) ==
    cw >= omw /\ ch <= max_line_height

RECURSIVE insert_before_equal_y(_, _)
insert_before_equal_y(e, t) ==
    IF t = <<>> THEN <<e>>
    ELSE IF Head(t).y < e.y THEN <<Head(t)>> \o insert_before_equal_y(e, Tail(t))
         ELSE <<e>> \o t

\* list.sort(key=y): ascending, equal keys in their original order.
RECURSIVE insert_by_y(_, _)
insert_by_y(e, t) ==
    IF t = <<>> THEN <<e>>
    ELSE IF Head(t).y <= e.y THEN <<Head(t)>> \o insert_by_y(e, Tail(t))
         ELSE <<e>> \o t

RECURSIVE sort_by_y(_)
sort_by_y(s) ==
    IF s = <<>> THEN <<>>
    ELSE insert_by_y(s[Len(s)], sort_by_y(SubSeq(s, 1, Len(s) - 1)))

opened_bitmap(img, min_line_width_ratio) ==
    LET bw == bitwise_or(threshold_otsu_inv(img), adaptiveThreshold_inv(img))
        omw == orig_min_width(min_line_width_ratio, img.w)
    IN  morphologyEx_open(bw, horiz_kern(img, min_line_width_ratio)[1],
                          img.w, img.h)

line_boxes(img, min_line_width_ratio) ==
    LET contours == findContours(opened_bitmap(img, min_line_width_ratio))
    IN  [i \in 1..Len(contours) |-> boundingRect(contours[i])]

lines_appended(img, min_line_width_ratio, max_line_height) ==
    LET omw == orig_min_width(min_line_width_ratio, img.w)
    IN  SelectSeq(line_boxes(img, min_line_width_ratio),
                  LAMBDA b : line_kept(b.width, b.height, omw, max_line_height))

\* The value returned, or raised |-> TRUE when getStructuringElement
\* refuses a kernel of width 0 (cv2.error).
detect_horizontal_lines(img, min_line_width_ratio, max_line_height) ==
    LET omw == orig_min_width(min_line_width_ratio, img.w)
    IN  IF open_width(omw) < 1
        THEN [raised |-> TRUE, value |-> <<>>]
        ELSE [raised |-> FALSE,
              value |-> sort_by_y(lines_appended(img, min_line_width_ratio,
                                                 max_line_height))]

(***************************************************************************)
(* detect_rectangles (skalu.py 89-156).  The contours are those            *)
(* cv2.findContours returns for the dilated Canny edge map, each with      *)
(* what the library computes for it: area2 is twice cv2.contourArea (an    *)
(* area is a multiple of one half), approx the number of vertices          *)
(* cv2.approxPolyDP leaves, and x, y, width, height the cv2.boundingRect   *)
(* of that polygon.  A raster without dark pixels has no gradient, hence   *)
(* no edge and no contour.                                                 *)
(***************************************************************************)
rect_contours(img) == IF img.dark = {} THEN <<>> ELSE img.contours

area_threshold(area_ratio, img_area) == (area_ratio * img_area) \div 1000

rect_kept_open_range(c, min_area, max_area) ==
    /\ ~(c.area2 <= 2 * min_area \/ c.area2 >= 2 * max_area)
    /\ c.approx = 4
    /\ c.width > 5 /\ c.height > 5

rect_kept(c, min_area, max_area) ==
    /\ ~(c.area2 < 2 * min_area \/ c.area2 > 2 * max_area)
    /\ c.approx = 4
    /\ c.width > 5 /\ c.height > 5

rect_of(c) == [x |-> c.x, y |-> c.y, width |-> c.width, height |-> c.height]

rectangles_appended(img, min_rect_area_ratio, max_rect_area_ratio) ==
    LET img_area == img.h * img.w
        min_area == area_threshold(min_rect_area_ratio, img_area)
        max_area == area_threshold(max_rect_area_ratio, img_area)
        kept == SelectSeq(rect_contours(img),
                          LAMBDA c : rect_kept(c, min_area, max_area))
    IN  [i \in 1..Len(kept) |-> rect_of(kept[i])]

RECURSIVE insert_by_area(_, _)
insert_by_area(e, t) ==
    IF t = <<>> THEN <<e>>
    ELSE IF Head(t).width * Head(t).height >= e.width * e.height
         THEN <<Head(t)>> \o insert_by_area(e, Tail(t))
         ELSE <<e>> \o t

RECURSIVE insert_by_area_asc(_, _)
insert_by_area_asc(e, t) ==
    IF t = <<>> THEN <<e>>
    ELSE IF Head(t).width * Head(t).height <= e.width * e.height
         THEN <<Head(t)>> \o insert_by_area_asc(e, Tail(t))
         ELSE <<e>> \o t

RECURSIVE sort_by_area_asc(_)
sort_by_area_asc(s) ==
    IF s = <<>> THEN <<>>
    ELSE insert_by_area_asc(s[Len(s)], sort_by_area_asc(SubSeq(s, 1, Len(s) - 1)))

sort_by_area_asc_reversed(s) == Reverse(sort_by_area_asc(s))

\* list.sort(key=area, reverse=True): descending, equal keys in their
\* original order.
RECURSIVE sort_by_area_desc(_)
sort_by_area_desc(s) ==
    IF s = <<>> THEN <<>>
    ELSE insert_by_area(s[Len(s)], sort_by_area_desc(SubSeq(s, 1, Len(s) - 1)))

detect_rectangles(img, min_rect_area_ratio, max_rect_area_ratio) ==
    sort_by_area_desc(rectangles_appended(img, min_rect_area_ratio,
                                          max_rect_area_ratio))

(***************************************************************************)
(* Inputs of the line detector: rasters drawn as the tests draw them,      *)
(* with filled bars (cv2.rectangle(..., -1)) on a white canvas.            *)
(***************************************************************************)
Bars ==
    {b \in [x0 : 0..(MaxW - 1), x1 : 0..(MaxW - 1),
            y0 : 0..(MaxH - 1), y1 : 0..(MaxH - 1)] :
        b.x0 <= b.x1 /\ b.y0 <= b.y1}

BarPixels(b) == (b.x0..b.x1) \X (b.y0..b.y1)

BarWidth(b) == b.x1 - b.x0 + 1
BarHeight(b) == b.y1 - b.y0 + 1

Colinear(a, b) == a.y0 = b.y0 /\ a.y1 = b.y1 /\ a.x1 + 1 < b.x0

Stacked(a, b) ==
    a.x0 = 0 /\ a.y0 = 0 /\ a.y1 = 0 /\ b.y0 = b.y1 /\ a.y1 < b.y0

Scenes ==
    {{}} \cup {{b} : b \in Bars}
         \cup {{a, b} : <<a, b>> \in {ab \in Bars \X Bars :
                                         Colinear(ab[1], ab[2])
                                         \/ Stacked(ab[1], ab[2])}}

Draw(sc) == UNION {BarPixels(b) : b \in sc}

Ratios == {0, 4, 5, 7, 10}

DefaultParams ==
    [min_line_width_ratio |-> 2, max_line_height |-> 10,
     min_rect_area_ratio |-> 1, max_rect_area_ratio |-> 500]

LineParams ==
    {[DefaultParams EXCEPT !.min_line_width_ratio = r, !.max_line_height = m] :
        r \in Ratios, m \in 1..MaxLineHeight}

\* The images a detector writes when it is given a debug_dir.
line_debug_images ==
    {"step_01_gray.png", "step_02_otsu.png", "step_03_adaptive.png",
     "step_04_union.png"}

rect_debug_images ==
    {"rect_01_gray.png", "rect_02_edges.png", "rect_03_dilated.png"}

\* The files a call leaves, when the flag is set, in the directory named
\* where, in its subdirectory for the given unit (page or file; 0: none).
written_to(flag, where, unit, names) ==
    IF flag THEN {<<where, unit, n>> : n \in names} ELSE {}

\* No server is involved when the library is called directly.
NoServer ==
    /\ request = <<>>
    /\ jobs = <<>>
    /\ jobs_lock = "none"
    /\ thread = <<>>
    /\ workdirs = <<>>
    /\ invoked = 0

\* No document, file or folder is involved when a detector is called alone.
NoAggregator ==
    /\ doc = [opens |-> FALSE, pages |-> <<>>]
    /\ image_file = [decodes |-> FALSE]
    /\ folder = <<>>
    /\ save_visualization = FALSE
    /\ page_num = 0
    /\ pages = <<>>
    /\ calculated_dpi = <<>>
    /\ imgs = <<>>
    /\ result = <<>>
    /\ progress = <<>>
    /\ output_json = <<>>
    /\ ret = FALSE
    /\ run = 1
    /\ first = <<>>
    /\ progress_callback = "none"
    /\ artifacts = {}
    /\ input_folder = <<>>
    /\ effective_bounds = <<>>
    /\ NoServer

InitLines ==
    /\ call = "detect_horizontal_lines"
    /\ scene \in Scenes
    /\ image = [w |-> MaxW, h |-> MaxH, dark |-> Draw(scene), contours |-> <<>>]
    /\ params \in LineParams
    /\ pc = "start"
    /\ lines = <<>>
    /\ rectangles = <<>>
    /\ raised = FALSE
    /\ debug_dir = FALSE
    /\ NoAggregator

DetectHorizontalLines ==
    /\ call = "detect_horizontal_lines"
    /\ pc = "start"
    /\ LET r == detect_horizontal_lines(image, params.min_line_width_ratio,
                                        params.max_line_height)
       IN  /\ lines' = r.value
           /\ raised' = r.raised
    /\ artifacts' = artifacts \cup written_to(debug_dir, "debug_dir", 0,
                                             line_debug_images)
    /\ pc' = "done"
    /\ UNCHANGED <<call, scene, image, params, rectangles, aggVars, debug_dir>>

NextLines == DetectHorizontalLines

SpecLines == InitLines /\ [][NextLines]_vars

(***************************************************************************)
(* Inputs of the rectangle detector: a square canvas, blank or with a      *)
(* filled square drawn on it, and the contours the library reports for     *)
(* it.  The areas offered lie on and next to the two thresholds, and the   *)
(* polygons reach from the left border and down to the bottom border: a    *)
(* contour and its approximation are made of pixels of the raster.         *)
(***************************************************************************)
MaxContours == 2

Square == [x0 |-> 1, x1 |-> MaxW - 2, y0 |-> 1, y1 |-> MaxW - 2]

RectParams ==
    {[DefaultParams EXCEPT !.min_rect_area_ratio = a, !.max_rect_area_ratio = b] :
        a \in {1, 250}, b \in {500}}

ContourShapes == {<<5, 6>>, <<6, 5>>, <<6, 7>>, <<7, 6>>}

ContoursFor(p, w, h) ==
    LET min_area == area_threshold(p.min_rect_area_ratio, w * h)
        max_area == area_threshold(p.max_rect_area_ratio, w * h)
        areas == {a \in {2 * min_area - 1, 2 * min_area,
                         2 * max_area, 2 * max_area + 1} : a >= 0}
    IN  {[area2 |-> a, approx |-> n, x |-> 0, y |-> h - s[2],
          width |-> s[1], height |-> s[2]] :
            a \in areas, n \in 3..5, s \in ContourShapes}

ContourLists(p, w, h) ==
    UNION {[1..n -> ContoursFor(p, w, h)] : n \in 0..MaxContours}

InitRects ==
    /\ call = "detect_rectangles"
    /\ scene \in {{}, {Square}}
    /\ params \in RectParams
    /\ \E cs \in ContourLists(params, MaxW, MaxW) :
          /\ scene = {} => cs = <<>>
          /\ image = [w |-> MaxW, h |-> MaxW, dark |-> Draw(scene),
                      contours |-> cs]
    /\ pc = "start"
    /\ lines = <<>>
    /\ rectangles = <<>>
    /\ raised = FALSE
    /\ debug_dir = FALSE
    /\ NoAggregator

DetectRectangles ==
    /\ call = "detect_rectangles"
    /\ pc = "start"
    /\ rectangles' = detect_rectangles(image, params.min_rect_area_ratio,
                                       params.max_rect_area_ratio)
    /\ artifacts' = artifacts \cup written_to(debug_dir, "debug_dir", 0,
                                             rect_debug_images)
    /\ pc' = "done"
    /\ UNCHANGED <<call, scene, image, params, lines, raised, aggVars,
                   debug_dir>>

NextRects == DetectRectangles

SpecRects == InitRects /\ [][NextRects]_vars

InitDetect == InitLines \/ InitRects

NextDetect == DetectHorizontalLines \/ DetectRectangles

SpecDetect == InitDetect /\ [][NextDetect]_vars

(***************************************************************************)
(* Rasters the aggregators meet, on a MaxW x MaxW canvas: a blank one, one *)
(* with a one-pixel rule across it, and one with the one-pixel outline of  *)
(* a square.  Each comes with the contours the library reports for its     *)
(* dilated edge map: none for the blank raster, a flat blob around the     *)
(* rule, the outer boundary of the thickened outline for the frame.        *)
(***************************************************************************)
Kinds == {"blank", "rule", "frame"}

Rule == [x0 |-> 1, x1 |-> MaxW - 2, y0 |-> 4, y1 |-> 4]

Frame ==
    {[x0 |-> 2, x1 |-> 7, y0 |-> 2, y1 |-> 2],
     [x0 |-> 2, x1 |-> 7, y0 |-> 7, y1 |-> 7],
     [x0 |-> 2, x1 |-> 2, y0 |-> 2, y1 |-> 7],
     [x0 |-> 7, x1 |-> 7, y0 |-> 2, y1 |-> 7]}

Raster(kind) ==
    [w |-> MaxW, h |-> MaxW,
     dark |-> CASE kind = "blank" -> {}
                [] kind = "rule" -> Draw({Rule})
                [] kind = "frame" -> Draw(Frame),
     contours |-> CASE kind = "blank" -> <<>>
                    [] kind = "rule" ->
                         <<[area2 |-> 36, approx |-> 4, x |-> 0, y |-> 3,
                            width |-> MaxW, height |-> 3]>>
                    [] kind = "frame" ->
                         <<[area2 |-> 98, approx |-> 4, x |-> 1, y |-> 1,
                            width |-> 8, height |-> 8]>>]

\* round3 of the quotient num / den, in thousandths.
round3(num, den) == (2000 * num + den) \div (2 * den)

\* The "detection_params" object: the four parameters as used.
detection_params(p) ==
    [min_line_width_ratio |-> p.min_line_width_ratio,
     max_line_height |-> p.max_line_height,
     min_rect_area_ratio |-> p.min_rect_area_ratio,
     max_rect_area_ratio |-> p.max_rect_area_ratio]

add_structures_always(entry, ls, rs) ==
    entry @@ [horizontal_lines |-> ls, rectangles |-> rs]

\* if lines: entry["horizontal_lines"] = lines
\* if rectangles: entry["rectangles"] = rectangles
add_structures(entry, ls, rs) ==
    LET with_lines == IF ls # <<>> THEN entry @@ [horizontal_lines |-> ls]
                      ELSE entry
    IN  IF rs # <<>> THEN with_lines @@ [rectangles |-> rs] ELSE with_lines

(***************************************************************************)
(* The detectors are functions of their arguments: what the pair returns   *)
(* on each raster of the catalogue under each parameter setting.           *)
(***************************************************************************)
AggParams ==
    {[DefaultParams EXCEPT !.min_line_width_ratio = r] : r \in {5, 7}}

Detections ==
    [k \in Kinds |->
        [p \in AggParams \cup {DefaultParams} |->
            [found |-> detect_horizontal_lines(Raster(k),
                                               p.min_line_width_ratio,
                                               p.max_line_height),
             rectangles |-> detect_rectangles(Raster(k),
                                              p.min_rect_area_ratio,
                                              p.max_rect_area_ratio)]]]

(***************************************************************************)
(* progress_callback: "none" when the caller passes none, "records" for a  *)
(* callback that notes the pair it is given, "raises" for one that notes   *)
(* the pair and then raises.  progress is the sequence of pairs noted.     *)
(* Every invocation sits in try / except Exception: pass.                  *)
(***************************************************************************)
report_done_only(noted, callback, done, total) ==
    IF callback = "none" THEN noted ELSE Append(noted, <<done, done>>)

report(noted, callback, done, total) ==
    IF callback = "none" THEN noted ELSE Append(noted, <<done, total>>)

callback_unguarded(callback) == callback = "raises"

\* Whether an exception of the callback leaves the try statement around
\* its invocation.
callback_propagates(callback) == FALSE

(***************************************************************************)
(* process_pdf (skalu.py 228-434), one action per stretch of its code:     *)
(* opening the document, one iteration of the page loop, and the writing   *)
(* of the result.  A page is rendered at scale 2 to a MaxW x MaxW pixmap.  *)
(* page.renders tells whether load_page and get_pixmap succeed (they raise *)
(* otherwise), page.decodes whether cv2.imdecode returns an image;         *)
(* page.mediabox and page.cropbox are rectangles <<x0, y0, x1, y1>> in     *)
(* hundredths of a point.                                                  *)
(***************************************************************************)
MaxPages == 3

rect_width(r) == r[3] - r[1]

rect_height(r) == r[4] - r[2]

always_media(crop_box, media_box) == TRUE

crop_is_empty(crop_box, media_box) ==
    \/ rect_width(crop_box) <= 0
    \/ rect_height(crop_box) <= 0
    \/ crop_box = media_box

\* effective_bounds = media_box if crop_is_empty else crop_box
effective_bounds_of(page) ==
    IF crop_is_empty(page.cropbox, page.mediabox) THEN page.mediabox
    ELSE page.cropbox

open_never_fails(d) == FALSE

\* fitz.open(pdf_path) raises.
open_fails(d) == ~d.opens

pages_kept(previous) == previous

\* pages = []
pages_at_start(previous) == <<>>

page_always_contributes(ls, rs) == TRUE

\* if lines or rectangles:
page_contributes(ls, rs) == ls # <<>> \/ rs # <<>>

page_result(n, img, ls, rs) ==
    add_structures([page |-> n, width |-> img.w, height |-> img.h], ls, rs)

\* raw_dpi = actual_size / (effective_bounds size / 72.0), rounded by round3
page_dpi(bounds, img) ==
    <<round3(7200 * img.w, rect_width(bounds)),
      round3(7200 * img.h, rect_height(bounds))>>

dpi_of_every_page(calculated, bounds, img) == page_dpi(bounds, img)

\* if calculated_dpi_x is None and calculated_dpi_y is None: ...
dpi_after_page(calculated, bounds, img) ==
    IF calculated = <<>> THEN page_dpi(bounds, img) ELSE calculated

\* What no action of an aggregator changes.
given == <<call, scene, params, doc, image_file, input_folder,
           save_visualization, debug_dir, progress_callback, run, first,
           webVars>>

process_pdf_open ==
    /\ call = "process_pdf"
    /\ pc = "start"
    /\ IF open_fails(doc)
       THEN /\ ret' = FALSE
            /\ pc' = "done"
            /\ UNCHANGED <<pages, calculated_dpi, page_num, progress, raised>>
       ELSE /\ pages' = pages_at_start(pages)
            /\ calculated_dpi' = <<>>
            /\ page_num' = 0
            /\ progress' = report(progress, progress_callback, 0,
                                  Len(doc.pages))
            /\ IF callback_propagates(progress_callback)
               THEN raised' = TRUE /\ pc' = "done"
               ELSE pc' = "pages" /\ UNCHANGED raised
            /\ UNCHANGED ret
    /\ UNCHANGED <<given, image, lines, rectangles, folder, imgs, result,
                   output_json, artifacts, effective_bounds>>

\* The visualization of page n, written next to the JSON file.
page_visualization(n) == {"page_detected.jpg"}

process_pdf_page ==
    /\ call = "process_pdf"
    /\ pc = "pages"
    /\ page_num < Len(doc.pages)
    /\ LET page == doc.pages[page_num + 1]
           img == Raster(page.kind)
           found == Detections[page.kind][params].found
           rs == Detections[page.kind][params].rectangles
           bounds == effective_bounds_of(page)
       IN  IF ~page.renders
           THEN /\ raised' = TRUE
                /\ pc' = "done"
                /\ UNCHANGED <<image, lines, rectangles, pages, page_num,
                               calculated_dpi, progress, artifacts,
                               effective_bounds>>
           ELSE /\ effective_bounds' = bounds
                /\ IF ~page.decodes
                   THEN /\ page_num' = page_num + 1
                        /\ UNCHANGED <<image, lines, rectangles, raised,
                                       pages, calculated_dpi, progress, pc,
                                       artifacts>>
                   ELSE /\ image' = img
                        /\ calculated_dpi' =
                              dpi_after_page(calculated_dpi, bounds, img)
                        /\ IF found.raised
                           THEN /\ raised' = TRUE
                                /\ pc' = "done"
                                /\ artifacts' = artifacts \cup
                                      written_to(debug_dir, "debug_dir",
                                                 page_num + 1,
                                                 line_debug_images)
                                /\ UNCHANGED <<lines, rectangles, pages,
                                               progress, page_num>>
                           ELSE /\ lines' = found.value
                                /\ rectangles' = rs
                                /\ pages' =
                                      IF page_contributes(found.value, rs)
                                      THEN Append(pages,
                                                  page_result(page_num + 1,
                                                              img,
                                                              found.value,
                                                              rs))
                                      ELSE pages
                                /\ artifacts' = artifacts
                                      \cup written_to(debug_dir, "debug_dir",
                                                      page_num + 1,
                                                      line_debug_images
                                                      \cup rect_debug_images)
                                      \cup written_to(save_visualization,
                                                      "output_dir",
                                                      page_num + 1,
                                                      page_visualization(
                                                          page_num + 1))
                                /\ progress' = report(progress,
                                                      progress_callback,
                                                      page_num + 1,
                                                      Len(doc.pages))
                                /\ IF callback_propagates(progress_callback)
                                   THEN /\ raised' = TRUE
                                        /\ pc' = "done"
                                        /\ UNCHANGED page_num
                                   ELSE /\ page_num' = page_num + 1
                                        /\ UNCHANGED <<raised, pc>>
    /\ UNCHANGED <<given, folder, imgs, result, output_json, ret>>

process_pdf_write ==
    /\ call = "process_pdf"
    /\ pc = "pages"
    /\ page_num = Len(doc.pages)
    /\ output_json' =
          <<[pages |-> pages,
             dpi |-> IF calculated_dpi # <<>>
                     THEN [x |-> calculated_dpi[1], y |-> calculated_dpi[2]]
                     ELSE [x |-> 144000, y |-> 144000],
             detection_params |-> detection_params(params)]>>
    /\ progress' = report(progress, progress_callback, Len(doc.pages),
                          Len(doc.pages))
    /\ IF callback_propagates(progress_callback)
       THEN raised' = TRUE /\ UNCHANGED ret
       ELSE ret' = TRUE /\ UNCHANGED raised
    /\ pc' = "done"
    /\ UNCHANGED <<given, image, lines, rectangles, folder, page_num, pages,
                   calculated_dpi, imgs, result, artifacts,
                   effective_bounds>>

(***************************************************************************)
(* process_single_image (skalu.py 436-533).  image_file is the file at     *)
(* image_path: its base name, whether cv2.imread decodes it, the raster it *)
(* holds and the dpi pair get_image_dpi reads from it (0, 0 when it        *)
(* records none).                                                          *)
(***************************************************************************)
image_result(file, img, ls, rs) ==
    add_structures([dpi |-> [x |-> file.dpi[1], y |-> file.dpi[2],
                             height |-> img.h, width |-> img.w]], ls, rs)

imread_always(file) == FALSE

\* img = cv2.imread(path); img is None
imread_fails(file) == ~file.decodes

process_single_image ==
    /\ call = "process_single_image"
    /\ pc = "start"
    /\ LET img == Raster(image_file.kind)
           found == Detections[image_file.kind][params].found
           rs == Detections[image_file.kind][params].rectangles
       IN  IF imread_fails(image_file)
           THEN /\ ret' = FALSE
                /\ UNCHANGED <<image, lines, rectangles, raised, progress,
                               output_json, artifacts>>
           ELSE /\ image' = img
                /\ IF callback_propagates(progress_callback) \/ found.raised
                   THEN /\ raised' = TRUE
                        /\ progress' = report(progress, progress_callback,
                                              0, 1)
                        /\ UNCHANGED <<lines, rectangles, output_json, ret,
                                       artifacts>>
                   ELSE /\ lines' = found.value
                        /\ rectangles' = rs
                        /\ output_json' =
                              <<[result |->
                                    (image_file.name :>
                                        image_result(image_file, img,
                                                     found.value, rs)),
                                 detection_params |->
                                    detection_params(params)]>>
                        /\ artifacts' = artifacts
                              \cup written_to(debug_dir, "debug_dir", 0,
                                              line_debug_images
                                              \cup rect_debug_images)
                              \cup written_to(save_visualization,
                                              "output_dir", 0,
                                              {"_detected.jpg"})
                        /\ progress' = report(report(progress,
                                                     progress_callback, 0, 1),
                                              progress_callback, 1, 1)
                        /\ ret' = TRUE
                        /\ UNCHANGED raised
    /\ pc' = "done"
    /\ UNCHANGED <<given, folder, page_num, pages, calculated_dpi, imgs,
                   result, effective_bounds>>

(***************************************************************************)
(* process_folder (skalu.py 535-627): the listing, one iteration of the    *)
(* loop over the listed files, and the writing of the result.  folder maps *)
(* each file name in folder_path to the file; a name is a stem, the number *)
(* of "_detected" suffixes after it, and an extension.  imgs holds the     *)
(* names the loop has still to visit.                                      *)
(***************************************************************************)
exts == {"jpg", "jpeg", "png", "bmp", "tiff", "webp"}

StemRank == ("a" :> 1) @@ ("b" :> 2) @@ ("c" :> 3)

ExtRank == ("jpg" :> 1) @@ ("png" :> 2) @@ ("txt" :> 3)

\* The order of sorted() on the names as strings: "." sorts before "_", so
\* a name precedes the names that add "_detected" to its stem.
name_key(n) == 100 * StemRank[n.stem] + 10 * n.k + ExtRank[n.ext]

RECURSIVE listed_last_first(_)
listed_last_first(S) ==
    IF S = {} THEN <<>>
    ELSE LET n == CHOOSE m \in S : \A o \in S : name_key(m) >= name_key(o)
         IN  <<n>> \o listed_last_first(S \ {n})

RECURSIVE sorted(_)
sorted(S) ==
    IF S = {} THEN <<>>
    ELSE LET n == CHOOSE m \in S : \A o \in S : name_key(m) <= name_key(o)
         IN  <<n>> \o sorted(S \ {n})

\* os.path.splitext(fn)[0] + "_detected.jpg"
dbg_fn(fn) == [stem |-> fn.stem, k |-> fn.k + 1, ext |-> "jpg"]

folder_result(file, img, ls, rs) ==
    LET size == [width |-> img.w, height |-> img.h]
        with_x == IF file.dpi[1] # 0 THEN size @@ [x |-> file.dpi[1]] ELSE size
        dpi_dict == IF file.dpi[2] # 0 THEN with_x @@ [y |-> file.dpi[2]]
                    ELSE with_x
    IN  add_structures([dpi |-> dpi_dict], ls, rs)

no_early_return(names) == FALSE

\* if not imgs: return False
nothing_to_do(names) == names = <<>>

process_folder_list ==
    /\ call = "process_folder"
    /\ pc = "start"
    /\ result' = <<>>
    /\ imgs' = sorted({fn \in DOMAIN folder : fn.ext \in exts})
    /\ IF nothing_to_do(imgs')
       THEN ret' = FALSE /\ pc' = "done"
       ELSE pc' = "files" /\ UNCHANGED ret
    /\ UNCHANGED <<given, image, lines, rectangles, raised, folder, page_num,
                   pages, calculated_dpi, progress, output_json, artifacts,
                   effective_bounds>>

process_folder_file ==
    /\ call = "process_folder"
    /\ pc = "files"
    /\ imgs # <<>>
    /\ imgs' = Tail(imgs)
    /\ LET fn == Head(imgs)
           file == folder[fn]
           img == Raster(file.kind)
           found == Detections[file.kind][params].found
           rs == Detections[file.kind][params].rectangles
       IN  IF imread_fails(file)
           THEN UNCHANGED <<image, lines, rectangles, raised, result, folder,
                            pc, artifacts>>
           ELSE /\ image' = img
                /\ IF found.raised
                   THEN /\ raised' = TRUE
                        /\ pc' = "done"
                        /\ UNCHANGED <<lines, rectangles, result, folder,
                                       artifacts>>
                   ELSE /\ lines' = found.value
                        /\ rectangles' = rs
                        /\ result' = (fn :> folder_result(file, img,
                                                          found.value, rs))
                                     @@ result
                        /\ artifacts' = artifacts \cup
                              written_to(debug_dir, "debug_dir", name_key(fn),
                                         line_debug_images
                                         \cup rect_debug_images)
                        /\ IF save_visualization
                           THEN \E k \in Kinds :
                                   /\ (found.value = <<>> /\ rs = <<>>)
                                         => k = file.kind
                                   /\ folder' =
                                         (dbg_fn(fn) :>
                                             [decodes |-> TRUE, kind |-> k,
                                              dpi |-> <<0, 0>>]) @@ folder
                           ELSE UNCHANGED folder
                        /\ UNCHANGED <<raised, pc>>
    /\ UNCHANGED <<given, page_num, pages, calculated_dpi, progress,
                   output_json, ret, effective_bounds>>

process_folder_write ==
    /\ call = "process_folder"
    /\ pc = "files"
    /\ imgs = <<>>
    /\ output_json' = <<[result |-> result,
                         detection_params |-> detection_params(params)]>>
    /\ ret' = TRUE
    /\ pc' = "done"
    /\ UNCHANGED <<given, image, lines, rectangles, raised, folder, page_num,
                   pages, calculated_dpi, imgs, result, progress, artifacts,
                   effective_bounds>>

(***************************************************************************)
(* A second call.  What a call produced is its return value, the JSON      *)
(* file it left and, for a detector, the list it returned.                 *)
(*                                                                         *)
(* Rerun calls again with the same arguments, on whatever the first call   *)
(* left behind: every call initialises what it uses.                       *)
(*                                                                         *)
(* Recall (run 3) calls on a fresh copy of the same input, with an empty   *)
(* output location, and with other settings of what is meant not to        *)
(* matter: the progress callback, debug_dir and save_visualization.        *)
(***************************************************************************)
Outcome ==
    [ret |-> ret, output_json |-> output_json, lines |-> lines,
     rectangles |-> rectangles, raised |-> raised, progress |-> progress]

\* The settings that are meant to leave the outcome alone.
Settings ==
    [progress_callback |-> progress_callback, debug_dir |-> debug_dir,
     save_visualization |-> save_visualization]

OtherSettings ==
    {[progress_callback |-> "raises", debug_dir |-> FALSE,
      save_visualization |-> FALSE],
     [progress_callback |-> "records", debug_dir |-> TRUE,
      save_visualization |-> TRUE]}

Rerun ==
    /\ pc = "done"
    /\ run = 1
    /\ first' = <<Outcome, Settings>>
    /\ run' = 2
    /\ pc' = "start"
    /\ progress' = <<>>
    /\ raised' = FALSE
    /\ ret' = FALSE
    /\ UNCHANGED <<call, scene, image, params, lines, rectangles,
                   doc, image_file, folder, save_visualization, page_num,
                   pages, calculated_dpi, imgs, result, output_json,
                   progress_callback, debug_dir, artifacts, input_folder,
                   effective_bounds, webVars>>

Recall ==
    /\ pc = "done"
    /\ run = 1
    /\ first' = <<Outcome, Settings>>
    /\ run' = 3
    /\ pc' = "start"
    /\ progress' = <<>>
    /\ raised' = FALSE
    /\ ret' = FALSE
    /\ folder' = input_folder
    /\ output_json' = <<>>
    /\ artifacts' = {}
    /\ \E o \in OtherSettings :
          /\ progress_callback' =
                IF call \in {"process_pdf", "process_single_image"}
                THEN o.progress_callback ELSE progress_callback
          /\ debug_dir' = o.debug_dir
          /\ save_visualization' =
                IF call \in {"detect_horizontal_lines", "detect_rectangles"}
                THEN save_visualization ELSE o.save_visualization
    /\ UNCHANGED <<call, scene, image, params, lines, rectangles,
                   doc, image_file, page_num, pages, calculated_dpi, imgs,
                   result, input_folder, effective_bounds, webVars>>

(***************************************************************************)
(* Inputs of the aggregators.                                              *)
(***************************************************************************)
MediaBox == <<0, 0, 500, 500>>

\* A crop box inside the media box, and one without width.
CropBox == <<10, 10, 490, 490>>

EmptyCropBox == <<10, 10, 10, 490>>

PdfPages ==
    {[renders |-> FALSE, decodes |-> FALSE, kind |-> "blank",
      mediabox |-> MediaBox, cropbox |-> MediaBox],
     [renders |-> TRUE, decodes |-> FALSE, kind |-> "blank",
      mediabox |-> MediaBox, cropbox |-> MediaBox],
     [renders |-> TRUE, decodes |-> TRUE, kind |-> "blank",
      mediabox |-> MediaBox, cropbox |-> EmptyCropBox],
     [renders |-> TRUE, decodes |-> TRUE, kind |-> "rule",
      mediabox |-> MediaBox, cropbox |-> MediaBox],
     [renders |-> TRUE, decodes |-> TRUE, kind |-> "rule",
      mediabox |-> MediaBox, cropbox |-> CropBox],
     [renders |-> TRUE, decodes |-> TRUE, kind |-> "frame",
      mediabox |-> MediaBox, cropbox |-> MediaBox]}

Documents ==
    {[opens |-> FALSE, pages |-> <<>>]}
    \cup {[opens |-> TRUE, pages |-> ps] :
            ps \in UNION {[1..n -> PdfPages] : n \in 0..MaxPages}}

Unreadable == [decodes |-> FALSE, kind |-> "blank", dpi |-> <<0, 0>>]

ImageFiles ==
    {Unreadable,
     [decodes |-> TRUE, kind |-> "blank", dpi |-> <<0, 0>>],
     [decodes |-> TRUE, kind |-> "rule", dpi |-> <<72, 72>>],
     [decodes |-> TRUE, kind |-> "frame", dpi |-> <<0, 0>>],
     [decodes |-> TRUE, kind |-> "frame", dpi |-> <<72, 0>>]}

FolderNames ==
    {[stem |-> "a", k |-> 0, ext |-> "png"],
     [stem |-> "a", k |-> 1, ext |-> "jpg"],
     [stem |-> "b", k |-> 0, ext |-> "jpg"],
     [stem |-> "c", k |-> 0, ext |-> "txt"]}

\* The files a folder may hold under each name.
FilesNamed(n) ==
    IF n.ext \notin exts THEN {Unreadable}
    ELSE IF n.stem = "b" THEN {Unreadable, [decodes |-> TRUE, kind |-> "rule",
                                           dpi |-> <<72, 72>>]}
    ELSE ImageFiles

Folders ==
    UNION {{f \in [S -> ImageFiles] : \A n \in S : f[n] \in FilesNamed(n)} :
           S \in SUBSET FolderNames}

NoCallYet ==
    /\ scene = {}
    /\ image = [w |-> 0, h |-> 0, dark |-> {}, contours |-> <<>>]
    /\ pc = "start"
    /\ lines = <<>>
    /\ rectangles = <<>>
    /\ raised = FALSE
    /\ page_num = 0
    /\ pages = <<>>
    /\ calculated_dpi = <<>>
    /\ imgs = <<>>
    /\ result = <<>>
    /\ progress = <<>>
    /\ output_json = <<>>
    /\ ret = FALSE
    /\ run = 1
    /\ first = <<>>
    /\ debug_dir = FALSE
    /\ artifacts = {}
    /\ effective_bounds = <<>>

InitPdf ==
    /\ call = "process_pdf"
    /\ params \in AggParams
    /\ doc \in Documents
    /\ image_file = [decodes |-> FALSE]
    /\ folder = <<>>
    /\ input_folder = <<>>
    /\ save_visualization = FALSE
    /\ progress_callback = "records"
    /\ NoCallYet
    /\ NoServer

InitImage ==
    /\ call = "process_single_image"
    /\ params \in AggParams
    /\ doc = [opens |-> FALSE, pages |-> <<>>]
    /\ \E f \in ImageFiles :
          image_file = [name |-> [stem |-> "a", k |-> 0, ext |-> "png"]] @@ f
    /\ folder = <<>>
    /\ input_folder = <<>>
    /\ save_visualization = FALSE
    /\ progress_callback = "records"
    /\ NoCallYet
    /\ NoServer

InitFolder ==
    /\ call = "process_folder"
    /\ params \in AggParams
    /\ doc = [opens |-> FALSE, pages |-> <<>>]
    /\ image_file = [decodes |-> FALSE]
    /\ folder \in Folders
    /\ input_folder = folder
    /\ save_visualization \in BOOLEAN
    /\ progress_callback = "none"
    /\ NoCallYet
    /\ NoServer

\* A detector called directly on one of the aggregators' rasters.
InitCatalogue ==
    /\ call \in {"detect_horizontal_lines", "detect_rectangles"}
    /\ params \in AggParams
    /\ scene \in {{}, {Rule}, Frame}
    /\ image = Raster(CASE scene = {} -> "blank"
                        [] scene = {Rule} -> "rule"
                        [] scene = Frame -> "frame")
    /\ pc = "start"
    /\ lines = <<>>
    /\ rectangles = <<>>
    /\ raised = FALSE
    /\ debug_dir = FALSE
    /\ NoAggregator

Init == InitPdf \/ InitImage \/ InitFolder \/ InitCatalogue

Next ==
    \/ process_pdf_open
    \/ process_pdf_page
    \/ process_pdf_write
    \/ process_single_image
    \/ process_folder_list
    \/ process_folder_file
    \/ process_folder_write
    \/ DetectHorizontalLines
    \/ DetectRectangles
    \/ Rerun
    \/ Recall

Spec == Init /\ [][Next]_vars

(***************************************************************************)
(* Properties.                                                             *)
(***************************************************************************)
LinesDone == call = "detect_horizontal_lines" /\ pc = "done"
RectsDone == call = "detect_rectangles" /\ pc = "done"

\* min_width_px as the specification states it: floor(ratio * image width).
MinWidthPx == (params.min_line_width_ratio * image.w) \div 10

Boxes == line_boxes(image, params.min_line_width_ratio)

Qualifies(b) == b.width >= MinWidthPx /\ b.height <= params.max_line_height

Count(b, s) == Cardinality({k \in 1..Len(s) : s[k] = b})

LeftBar(sc) == CHOOSE a \in sc : \A b \in sc : a.x0 <= b.x0
RightBar(sc) == CHOOSE b \in sc : \A a \in sc : a.x0 <= b.x0

ColinearScene ==
    /\ Cardinality(scene) = 2
    /\ Colinear(LeftBar(scene), RightBar(scene))

Gap == RightBar(scene).x0 - LeftBar(scene).x1 - 1

\* C5: two colinear segments separated by a gap smaller than
\* 0.2 * min_width_px are reported as one merged line spanning both (here
\* for segments no thicker than max_line_height whose joint extent is at
\* least min_width_px wide, the case most favourable to the claim).
C5_GapIsBridged ==
    (/\ LinesDone
     /\ ColinearScene
     /\ 10 * Gap < 2 * MinWidthPx
     /\ BarHeight(LeftBar(scene)) <= params.max_line_height
     /\ RightBar(scene).x1 - LeftBar(scene).x0 + 1 >= MinWidthPx)
    => /\ Len(lines) = 1
       /\ lines[1].x <= LeftBar(scene).x0 + 2
       /\ lines[1].x + lines[1].width >= RightBar(scene).x1 + 1 - 2

\* C6: a single solid bar at least min_line_width_ratio * image_width wide
\* and at most max_line_height thick, alone on a blank image, is returned
\* as exactly one line whose edges are within 2 pixels of the bar's.
C6_SingleBarIsOneLine ==
    (/\ LinesDone
     /\ Cardinality(scene) = 1
     /\ \A b \in scene :
           /\ 10 * BarWidth(b) >= params.min_line_width_ratio * image.w
           /\ BarHeight(b) <= params.max_line_height)
    => /\ Len(lines) = 1
       /\ \A b \in scene :
             /\ Abs(lines[1].x - b.x0) <= 2
             /\ Abs(lines[1].y - b.y0) <= 2
             /\ Abs(lines[1].x + lines[1].width - (b.x1 + 1)) <= 2
             /\ Abs(lines[1].y + lines[1].height - (b.y1 + 1)) <= 2

\* C8: the lines returned are the kept ones, ordered by y ascending, and
\* two lines of equal y stay in the order in which they were detected.
C8_LinesSortedByYStable ==
    LinesDone =>
        LET kept == lines_appended(image, params.min_line_width_ratio,
                                   params.max_line_height)
        IN  /\ Len(lines) = Len(kept)
            /\ \A i, j \in 1..Len(lines) : i < j => lines[i].y <= lines[j].y
            /\ \A y \in 0..(image.h - 1) :
                  SelectSeq(lines, LAMBDA L : L.y = y)
                    = SelectSeq(kept, LAMBDA L : L.y = y)

\* Two different lines of equal y were returned.
C8_WitnessTie ==
    /\ LinesDone
    /\ Len(lines) = 2
    /\ lines[1].y = lines[2].y
    /\ lines[1] # lines[2]

\* Thresholds of the rectangle detector as the specification states them.
MinArea == (params.min_rect_area_ratio * image.w * image.h) \div 1000
MaxArea == (params.max_rect_area_ratio * image.w * image.h) \div 1000

IsRectangle(c) ==
    /\ c.approx = 4
    /\ c.area2 >= 2 * MinArea /\ c.area2 <= 2 * MaxArea
    /\ c.width > 5 /\ c.height > 5

\* C2: detect_rectangles keeps a component if and only if its polygon has
\* exactly 4 vertices, its area lies in the closed range [min_area,
\* max_area] and the polygon's bounding box is more than 5 wide and more
\* than 5 high; each such component is returned once, every other dropped.
C2_RectanglesAreTheQualifyingContours ==
    RectsDone =>
        LET cs == image.contours
            good == {i \in 1..Len(cs) : IsRectangle(cs[i])}
        IN  /\ Len(rectangles) = Cardinality(good)
            /\ \A j \in 1..Len(rectangles) :
                  Count(rectangles[j], rectangles)
                    = Cardinality({i \in good : rect_of(cs[i]) = rectangles[j]})
            /\ \A i \in good : \E j \in 1..Len(rectangles) :
                  rectangles[j] = rect_of(cs[i])

\* A kept contour whose area is exactly min_area next to one dropped for
\* being 5 wide or high.
C2_Witness ==
    /\ RectsDone
    /\ Len(rectangles) = 1
    /\ MinArea > 0
    /\ \E i \in 1..Len(image.contours) :
          IsRectangle(image.contours[i]) /\ image.contours[i].area2 = 2 * MinArea
    /\ \E i \in 1..Len(image.contours) :
          /\ image.contours[i].approx = 4
          /\ image.contours[i].area2 = 2 * MaxArea
          /\ (image.contours[i].width = 5 \/ image.contours[i].height = 5)

BoxArea(r) == r.width * r.height

\* C9: the rectangles returned are the kept ones ordered by bounding-box
\* area descending, and two rectangles of equal area stay in the order in
\* which they were detected.
C9_RectanglesSortedByAreaStable ==
    RectsDone =>
        LET kept == rectangles_appended(image, params.min_rect_area_ratio,
                                        params.max_rect_area_ratio)
        IN  /\ Len(rectangles) = Len(kept)
            /\ \A i, j \in 1..Len(rectangles) :
                  i < j => BoxArea(rectangles[i]) >= BoxArea(rectangles[j])
            /\ \A a \in 0..(image.w * image.h) :
                  SelectSeq(rectangles, LAMBDA r : BoxArea(r) = a)
                    = SelectSeq(kept, LAMBDA r : BoxArea(r) = a)

\* Two different rectangles of equal area were returned.
C9_WitnessTie ==
    /\ RectsDone
    /\ Len(rectangles) = 2
    /\ rectangles[1] # rectangles[2]
    /\ BoxArea(rectangles[1]) = BoxArea(rectangles[2])

\* C7: on an image without dark content both detectors return an empty
\* list and neither raises, whatever the parameters, also when
\* min_width_px is 0.
C7_BlankImageYieldsNothing ==
    (pc = "done" /\ image.dark = {}) =>
        lines = <<>> /\ rectangles = <<>> /\ ~raised

\* The line detector has run on a blank image with min_width_px = 0.
C7_Witness ==
    /\ LinesDone
    /\ image.dark = {}
    /\ MinWidthPx = 0

\* process_pdf has returned True, having written its result.
PdfWritten ==
    call = "process_pdf" /\ pc = "done" /\ ret /\ ~raised /\ output_json # <<>>

\* What the detector pair finds on page n of the document (1-based).
PageLines(n) ==
    detect_horizontal_lines(Raster(doc.pages[n].kind),
                            params.min_line_width_ratio,
                            params.max_line_height).value

PageRectangles(n) ==
    detect_rectangles(Raster(doc.pages[n].kind), params.min_rect_area_ratio,
                      params.max_rect_area_ratio)

PageHasStructure(n) ==
    /\ doc.pages[n].decodes
    /\ PageLines(n) # <<>> \/ PageRectangles(n) # <<>>

\* C3: the pages array process_pdf writes for a document of N pages lists,
\* with 1-based page numbers in strictly increasing order (hence without
\* duplicates), exactly the pages on which at least one line or at least
\* one rectangle was detected; a page with neither is absent.
C3_PagesAreThePagesWithStructure ==
    PdfWritten =>
        LET out == output_json[1].pages
        IN  /\ \A i, j \in 1..Len(out) : i < j => out[i].page < out[j].page
            /\ {out[i].page : i \in 1..Len(out)}
                  = {n \in 1..Len(doc.pages) : PageHasStructure(n)}

\* A three-page document whose middle page was rendered and had neither a
\* line nor a rectangle: the array holds pages 1 and 3.
C3_Witness ==
    /\ PdfWritten
    /\ Len(doc.pages) = 3
    /\ doc.pages[2].decodes
    /\ ~PageHasStructure(2)
    /\ Len(output_json[1].pages) = 2
    /\ output_json[1].pages[1].page = 1
    /\ output_json[1].pages[2].page = 3

\* The page or image entries of the result last written.
Entries ==
    IF output_json = <<>> THEN {}
    ELSE IF call = "process_pdf"
         THEN {output_json[1].pages[i] : i \in 1..Len(output_json[1].pages)}
         ELSE {output_json[1].result[n] : n \in DOMAIN output_json[1].result}

\* C4: in every result process_pdf, process_single_image and
\* process_folder write, an entry has the key horizontal_lines only with a
\* non-empty list of lines and the key rectangles only with a non-empty
\* list of rectangles.
C4_NoEmptyListIsEmitted ==
    call \in {"process_pdf", "process_single_image", "process_folder"} =>
        \A e \in Entries :
            /\ "horizontal_lines" \in DOMAIN e => e.horizontal_lines # <<>>
            /\ "rectangles" \in DOMAIN e => e.rectangles # <<>>

\* process_folder wrote an entry with rectangles and without the key
\* horizontal_lines, and one with neither key.
C4_Witness ==
    /\ call = "process_folder"
    /\ pc = "done"
    /\ ret
    /\ \E e \in Entries :
          "rectangles" \in DOMAIN e /\ "horizontal_lines" \notin DOMAIN e
    /\ \E e \in Entries :
          "rectangles" \notin DOMAIN e /\ "horizontal_lines" \notin DOMAIN e

\* C10: a second call of detect_horizontal_lines, detect_rectangles,
\* process_single_image or process_pdf on the same input with the same
\* parameters ends with the outcome of the first: the same return value,
\* the same lists in the same order, the same JSON.
C10_SecondRunRepeatsTheFirst ==
    (/\ run = 2
     /\ pc = "done"
     /\ call \in {"detect_horizontal_lines", "detect_rectangles",
                  "process_single_image", "process_pdf"})
    => Outcome = first[1]

\* process_pdf ran twice on a document with at least two reported pages,
\* one of them with two lines and a rectangle.
C10_Witness ==
    /\ run = 2
    /\ PdfWritten
    /\ Len(output_json[1].pages) >= 2
    /\ \E e \in Entries :
          /\ "horizontal_lines" \in DOMAIN e
          /\ "rectangles" \in DOMAIN e
          /\ Len(e.horizontal_lines) = 2

\* The dpi pair computed from page n: its pixmap against its effective
\* bounds.
DpiOfPage(n) ==
    LET d == page_dpi(effective_bounds_of(doc.pages[n]),
                      Raster(doc.pages[n].kind))
    IN  [x |-> d[1], y |-> d[2]]

\* The first page whose rendered bytes decode (0 when there is none).
FirstDecodedPage ==
    IF \E n \in 1..Len(doc.pages) : doc.pages[n].decodes
    THEN SetMin({n \in 1..Len(doc.pages) : doc.pages[n].decodes})
    ELSE 0

C12_EveryUnitIsReported ==
    progress_callback # "none" =>
        /\ (call = "process_pdf" /\ pc = "pages" /\ page_num >= 1
                /\ page_num < Len(doc.pages))
              => /\ progress # <<>>
                 /\ progress[Len(progress)] = <<page_num, Len(doc.pages)>>
        /\ (call = "process_single_image" /\ pc = "done" /\ ret)
              => /\ progress # <<>>
                 /\ progress[Len(progress)] = <<1, 1>>

\* A call on a copy of the input, after a first call whose callback never
\* raised, with a callback that raises at every invocation and the other
\* settings as before.
RecalledWithRaisingCallback ==
    /\ run = 3
    /\ pc = "done"
    /\ call \in {"process_pdf", "process_single_image"}
    /\ progress_callback = "raises"
    /\ first[2].progress_callback = "records"
    /\ debug_dir = first[2].debug_dir
    /\ save_visualization = first[2].save_visualization

\* C13: a progress callback that raises, at the initial, a per-unit or the
\* final invocation, changes nothing in process_pdf and
\* process_single_image: no exception leaves the call, and the return
\* value and the JSON written are those of the run whose callback never
\* raised.
C13_CallbackErrorsAreSwallowed ==
    RecalledWithRaisingCallback =>
        /\ raised = first[1].raised
        /\ ret = first[1].ret
        /\ output_json = first[1].output_json

\* process_pdf returned True on two reported pages although each of its
\* four invocations of the callback raised.
C13_Witness ==
    /\ RecalledWithRaisingCallback
    /\ PdfWritten
    /\ Len(doc.pages) = 2
    /\ Len(output_json[1].pages) = 2
    /\ progress = <<<<0, 2>>, <<1, 2>>, <<2, 2>>, <<2, 2>>>>

\* The whole input of the call cannot be opened or decoded.
InputCannotBeOpened ==
    \/ call = "process_pdf" /\ ~doc.opens
    \/ call = "process_single_image" /\ ~image_file.decodes

\* C14: process_pdf on a PDF that cannot be opened and
\* process_single_image on an image that cannot be decoded return False,
\* write no JSON file and raise nothing.
C14_OpenFailureReturnsFalse ==
    (pc = "done" /\ InputCannotBeOpened) =>
        /\ ~ret
        /\ output_json = <<>>
        /\ ~raised

\* process_pdf has returned on a PDF that does not open.
C14_Witness ==
    /\ pc = "done"
    /\ call = "process_pdf"
    /\ ~doc.opens
    /\ progress = <<>>

\* C15: when a page of an opened PDF fails to render (load_page or
\* get_pixmap fails, or the rendered bytes do not decode), process_pdf
\* skips that page and goes on: the call still writes the JSON and
\* returns True, without raising.
C15_FailedPageIsSkipped ==
    (call = "process_pdf" /\ pc = "done" /\ doc.opens) =>
        /\ ~raised
        /\ ret
        /\ output_json # <<>>

\* The names process_folder selects in a folder as it is given.
Listed == {n \in DOMAIN input_folder : n.ext \in exts}

\* a comes before b in the order of the file names as strings.
Precedes(a, b) == name_key(a) < name_key(b)

\* C16: process_folder visits the files with a supported extension in
\* lexicographic order of their names, skips a file that does not decode
\* and goes on, and writes a mapping with exactly one entry, under its
\* name, for every selected file that decodes, next to detection_params.
C16_FolderIsHandledInOrder ==
    (call = "process_folder" /\ run \in {1, 3}) =>
        /\ pc = "files" =>
              /\ \A i, j \in 1..Len(imgs) : i < j => Precedes(imgs[i], imgs[j])
              /\ \A n \in DOMAIN result, i \in 1..Len(imgs) :
                    Precedes(n, imgs[i])
              /\ {imgs[i] : i \in 1..Len(imgs)} \subseteq Listed
              /\ \A n \in Listed :
                    \/ \E i \in 1..Len(imgs) : imgs[i] = n
                    \/ \A i \in 1..Len(imgs) : Precedes(n, imgs[i])
              /\ DOMAIN result \subseteq Listed
        /\ (pc = "done" /\ Listed # {}) =>
              /\ ret
              /\ ~raised
              /\ DOMAIN output_json[1] = {"result", "detection_params"}
              /\ output_json[1].detection_params = detection_params(params)
              /\ DOMAIN output_json[1].result
                    = {n \in Listed : folder[n].decodes}

\* Three files were selected, the second does not decode, and the result
\* holds the first and the third.
C16_Witness ==
    /\ call = "process_folder"
    /\ run = 1
    /\ pc = "done"
    /\ ret
    /\ Cardinality(Listed) = 3
    /\ Cardinality(DOMAIN output_json[1].result) = 2
    /\ \E n \in Listed :
          /\ ~folder[n].decodes
          /\ \E a, b \in DOMAIN output_json[1].result :
                Precedes(a, n) /\ Precedes(n, b)

\* C17: process_folder on a folder that holds no file with a supported
\* extension returns False and writes no JSON.
C17_NothingSupportedReturnsFalse ==
    (call = "process_folder" /\ pc = "done" /\ Listed = {}) =>
        /\ ~ret
        /\ output_json = <<>>
        /\ ~raised

\* The folder holds a file, of an extension that is not supported.
C17_Witness ==
    /\ call = "process_folder"
    /\ pc = "done"
    /\ run = 1
    /\ Listed = {}
    /\ DOMAIN input_folder # {}
    /\ ~ret
    /\ imgs = <<>>

\* A call was made again on a fresh copy of the same input, with the same
\* progress callback and another setting of debug_dir or
\* save_visualization, and has finished.
RecalledWithOtherSideChannels ==
    /\ run = 3
    /\ pc = "done"
    /\ progress_callback = first[2].progress_callback
    /\ \/ debug_dir # first[2].debug_dir
       \/ save_visualization # first[2].save_visualization

\* C18: debug_dir and save_visualization are write-only side channels: the
\* value returned and the JSON written by process_pdf, process_single_image
\* and process_folder, and the lists returned by the two detectors, are the
\* same whether they are enabled or not.
C18_SideChannelsAreWriteOnly ==
    RecalledWithOtherSideChannels =>
        /\ raised = first[1].raised
        /\ ret = first[1].ret
        /\ output_json = first[1].output_json
        /\ call \notin {"process_pdf", "process_single_image",
                        "process_folder"} =>
              /\ lines = first[1].lines
              /\ rectangles = first[1].rectangles

\* The box b is a proper box of integers that lies inside the raster img.
BoxInside(b, img) ==
    /\ {b.x, b.y, b.width, b.height} \subseteq Int
    /\ b.width > 0 /\ b.height > 0
    /\ b.x >= 0 /\ b.y >= 0
    /\ b.x + b.width <= img.w
    /\ b.y + b.height <= img.h

\* C19: every bounding box detect_horizontal_lines or detect_rectangles
\* returns has integer x, y, width and height with width > 0, height > 0,
\* x >= 0, y >= 0, x + width <= image width and y + height <= image height.
C19_BoxesLieInsideTheRaster ==
    pc = "done" =>
        /\ \A i \in 1..Len(lines) : BoxInside(lines[i], image)
        /\ \A i \in 1..Len(rectangles) : BoxInside(rectangles[i], image)

\* A returned line that starts inside the raster and ends on its right
\* border and on its bottom border.
C19_Witness ==
    /\ LinesDone
    /\ \E i \in 1..Len(lines) :
          /\ lines[i].x > 0
          /\ lines[i].x + lines[i].width = image.w
          /\ lines[i].y + lines[i].height = image.h
    /\ open_width(orig_min_width(params.min_line_width_ratio, image.w)) > 1

\* The bounds the page is to be handled with: its crop box when that has a
\* positive width and height and is not the media box, else its media box.
BoundsToUse(page) ==
    IF /\ rect_width(page.cropbox) > 0
       /\ rect_height(page.cropbox) > 0
       /\ page.cropbox # page.mediabox
    THEN page.cropbox
    ELSE page.mediabox

\* C20: the effective bounds of a PDF page, used for rendering it and for
\* the DPI computation, are its crop box when the crop box is non-empty
\* and different from the media box, and its media box in every other case.
C20_EffectiveBoundsOfAPage ==
    (call = "process_pdf" /\ pc \in {"pages", "done"} /\ ~raised
     /\ doc.opens /\ page_num >= 1) =>
        /\ effective_bounds = BoundsToUse(doc.pages[page_num])
        /\ page_num = FirstDecodedPage =>
              calculated_dpi = page_dpi(BoundsToUse(doc.pages[page_num]),
                                        Raster(doc.pages[page_num].kind))

\* A document whose first page has a crop box of its own and whose second
\* page has an empty one: the resolution comes from the crop box of the
\* first, and the second was handled with its media box.
C20_Witness ==
    /\ PdfWritten
    /\ run = 1
    /\ page_num = 2
    /\ Len(doc.pages) = 2
    /\ doc.pages[1].cropbox = CropBox
    /\ doc.pages[1].decodes
    /\ doc.pages[2].cropbox = EmptyCropBox
    /\ effective_bounds = MediaBox
    /\ calculated_dpi = page_dpi(CropBox, Raster(doc.pages[1].kind))
    /\ calculated_dpi # page_dpi(MediaBox, Raster(doc.pages[1].kind))

\* k is the integer part of num / den, for num >= 0 and den > 0.
IsFloor(k, num, den) == k \in Int /\ k * den <= num /\ num < (k + 1) * den

\* min_width_px of the image and the ratio of the call (the ratio is held
\* in tenths).
IsMinWidthPx(m) == IsFloor(m, params.min_line_width_ratio * image.w, 10)

\* C21 (as amended): the structuring element of the opening in
\* detect_horizontal_lines has height 1 and width floor(min_width_px * 0.8),
\* or width 1 when that is 0, where min_width_px is
\* floor(min_line_width_ratio * image width).
C21_KernelIsEightyPercentAtLeastOne ==
    LinesDone =>
        LET kern == horiz_kern(image, params.min_line_width_ratio)
        IN  /\ kern[2] = 1
            /\ \E m \in 0..image.w :
                  /\ IsMinWidthPx(m)
                  /\ IF 8 * m >= 10 THEN IsFloor(kern[1], 8 * m, 10)
                     ELSE kern[1] = 1

\* A line was found with a kernel that is narrower than min_width_px and
\* wider than one pixel, 80% of min_width_px not being an integer.
C21_Witness ==
    /\ LinesDone
    /\ lines # <<>>
    /\ \E m \in 0..image.w :
          /\ IsMinWidthPx(m)
          /\ (8 * m) % 10 # 0
          /\ horiz_kern(image, params.min_line_width_ratio)[1] > 1
          /\ horiz_kern(image, params.min_line_width_ratio)[1] < m

\* C21 as stated: the structuring element has width
\* floor(min_width_px * 0.8) and height 1 for every image width and ratio.
C21_KernelIsEightyPercent ==
    LinesDone =>
        LET kern == horiz_kern(image, params.min_line_width_ratio)
        IN  /\ kern[2] = 1
            /\ \E m \in 0..image.w :
                  IsMinWidthPx(m) /\ IsFloor(kern[1], 8 * m, 10)

\* C29: a run of process_folder with save_visualization does not change
\* what a later run on the same folder processes: the second run selects
\* the same file names, so its result mapping has the same keys.
C29_VisualizationLeavesTheInputsAlone ==
    (/\ run = 2
     /\ call = "process_folder"
     /\ pc = "done"
     /\ save_visualization
     /\ first[1].ret)
    => /\ ret
       /\ DOMAIN output_json[1].result = DOMAIN first[1].output_json[1].result

\* C30: process_folder returns True and writes a JSON file whenever the
\* folder holds a file name with a supported extension, even when none of
\* these files decodes: the mapping written is then empty.  False is
\* returned only when there is no supported file name at all.
C30_UndecodableFilesAreNotAFailure ==
    (call = "process_folder" /\ pc = "done" /\ run \in {1, 3}) =>
        /\ Listed # {} =>
              /\ ret
              /\ ~raised
              /\ output_json # <<>>
              /\ (\A n \in Listed : ~input_folder[n].decodes) =>
                    DOMAIN output_json[1].result = {}
        /\ ~ret => Listed = {}

\* Two files with a supported extension, neither of which decodes.
C30_Witness ==
    /\ call = "process_folder"
    /\ pc = "done"
    /\ run = 1
    /\ Cardinality(Listed) = 2
    /\ \A n \in Listed : ~input_folder[n].decodes
    /\ ret
    /\ output_json[1].result = <<>>

(***************************************************************************)
(* The job server (src/src/skalu/web/flask_app.py; src/app.py is the same  *)
(* program with module-level names).  One POST /analyze request is         *)
(* followed through: its upload, the job it registers and the worker       *)
(* thread it starts, which calls process_pdf or process_single_image with  *)
(* a progress callback that writes to the job record.  Other requests      *)
(* poll /progress, /results and /download at any time.                     *)
(*                                                                         *)
(* A file name is a sequence of pieces: words, dots, blanks and slashes.   *)
(***************************************************************************)
ALLOWED_EXTENSIONS == {"pdf", "png", "jpg", "jpeg", "bmp", "tiff", "webp"}

\* str.lower() on a piece.
lower(piece) ==
    CASE piece = "PDF" -> "pdf"
      [] piece = "PNG" -> "png"
      [] OTHER -> piece

\* The index of the last dot of the name, 0 when it has none.
last_dot(filename) ==
    IF \E i \in 1..Len(filename) : filename[i] = "."
    THEN SetMax({i \in 1..Len(filename) : filename[i] = "."})
    ELSE 0

any_file_allowed(filename) == TRUE

\* "." in filename and filename.rsplit(".", 1)[1].lower() in
\* ALLOWED_EXTENSIONS
allowed_file(filename) ==
    /\ last_dot(filename) # 0
    /\ last_dot(filename) = Len(filename) - 1
    /\ lower(filename[Len(filename)]) \in ALLOWED_EXTENSIONS

\* s without its leading and trailing pieces of the set chars.
RECURSIVE lstrip(_, _)
lstrip(s, chars) ==
    IF s # <<>> /\ Head(s) \in chars THEN lstrip(Tail(s), chars) ELSE s

strip(s, chars) == Reverse(lstrip(Reverse(lstrip(s, chars)), chars))

\* "_".join(s.split()): the words of s, one underscore between them.
RECURSIVE join_words(_)
join_words(s) ==
    IF s = <<>> THEN <<>>
    ELSE IF Head(s) = " "
         THEN IF lstrip(s, {" "}) = <<>> THEN <<>>
              ELSE <<"_">> \o join_words(lstrip(s, {" "}))
         ELSE <<Head(s)>> \o join_words(Tail(s))

\* werkzeug.utils.secure_filename: path separators become blanks, the
\* words are joined with underscores, and dots and underscores are
\* stripped from both ends.
secure_filename(filename) ==
    LET spaced == [i \in 1..Len(filename) |->
                      IF filename[i] = "/" THEN " " ELSE filename[i]]
    IN  strip(join_words(lstrip(spaced, {" "})), {".", "_"})

\* os.path.splitext(filename)[1].lower(), without its dot.
suffix_of(filename) ==
    IF last_dot(filename) \in {0, Len(filename)} THEN ""
    ELSE lower(filename[Len(filename)])

\* The names offered as the filename of the upload.
Filenames ==
    {<<>>,
     <<"a">>,
     <<"a", ".", "txt">>,
     <<"a", ".", "pdf">>,
     <<"a", ".", "PDF">>,
     <<"a", ".", "png">>,
     <<"a", ".", "pdf", ".">>,
     <<"/", "a", " ", "b", ".", "png">>}

\* filename = secure_filename(uploaded_file.filename), for each name offered.
sanitized == [n \in Filenames |-> secure_filename(n)]

\* A POST /analyze request: whether it carries a file part, the filename
\* of that part, and whether tempfile.mkdtemp and uploaded_file.save
\* succeed for it.
Requests ==
    {[file |-> FALSE, filename |-> <<>>, mkdtemp |-> TRUE, saves |-> TRUE]}
    \cup {[file |-> TRUE, filename |-> n, mkdtemp |-> TRUE, saves |-> TRUE] :
             n \in Filenames}
    \cup {[file |-> TRUE, filename |-> <<"a", ".", "pdf">>, mkdtemp |-> m,
           saves |-> s] : m \in BOOLEAN, s \in BOOLEAN}

\* if not uploaded_file or uploaded_file.filename == "": ... 400
\* if not allowed_file(secure_filename(...)): ... 400
rejected(req) ==
    \/ ~req.file
    \/ req.filename = <<>>
    \/ ~allowed_file(sanitized[req.filename])

\* The request gets as far as starting a worker.
accepted(req) == ~rejected(req) /\ req.mkdtemp /\ req.saves

JobId == "job"

Workdir == "skalu_job_"

Pollers == {"poll1"}

Threads == {"analyze", "worker"} \cup Pollers

Routes == {"progress", "results", "download"}

\* The pages of the uploaded documents.
JobPages == {p \in PdfPages : ~p.decodes \/ p.cropbox = CropBox}

JobDocuments ==
    {d \in Documents : \A i \in 1..Len(d.pages) : d.pages[i] \in JobPages}

NoDocument == [opens |-> FALSE, pages |-> <<>>]

\* What the uploaded file holds: any of the documents or images when the
\* name is plain, one that cannot be opened when the name had to be
\* sanitized or lower-cased.
InitJobs ==
    /\ request \in Requests
    /\ LET filename == secure_filename(request.filename)
           is_pdf == suffix_of(filename) = "pdf"
           plain == request.filename \in {<<"a", ".", "pdf">>,
                                          <<"a", ".", "png">>}
       IN  /\ call = IF is_pdf THEN "process_pdf" ELSE "process_single_image"
           /\ doc \in IF accepted(request) /\ is_pdf /\ plain
                      THEN JobDocuments ELSE {NoDocument}
           /\ image_file \in
                 IF accepted(request) /\ ~is_pdf
                 THEN {[name |-> [stem |-> "a", k |-> 0, ext |-> "png"]] @@ f :
                          f \in IF plain THEN ImageFiles ELSE {Unreadable}}
                 ELSE {[decodes |-> FALSE]}
    /\ params = DefaultParams
    /\ debug_dir = TRUE
    /\ save_visualization = TRUE
    /\ progress_callback = "records"
    /\ scene = {}
    /\ image = [w |-> 0, h |-> 0, dark |-> {}, contours |-> <<>>]
    /\ pc = "start"
    /\ lines = <<>>
    /\ rectangles = <<>>
    /\ raised = FALSE
    /\ folder = <<>>
    /\ input_folder = <<>>
    /\ page_num = 0
    /\ pages = <<>>
    /\ calculated_dpi = <<>>
    /\ imgs = <<>>
    /\ result = <<>>
    /\ progress = <<>>
    /\ output_json = <<>>
    /\ ret = FALSE
    /\ run = 1
    /\ first = <<>>
    /\ artifacts = {}
    /\ effective_bounds = <<>>
    /\ jobs = <<>>
    /\ jobs_lock = "none"
    /\ workdirs = <<>>
    /\ invoked = 0
    /\ thread = [t \in Threads |->
                    [pc |-> CASE t = "analyze" -> "validate"
                              [] t = "worker" -> "unstarted"
                              [] OTHER -> "idle",
                     route |-> "none", job_id |-> "none", job |-> "None",
                     response |-> <<>>]]

\* What the server's own steps leave alone: the state of the library call.
libVars == <<call, scene, image, params, pc, lines, rectangles, raised,
             doc, image_file, folder, save_visualization, page_num, pages,
             calculated_dpi, imgs, result, progress, output_json, ret, run,
             first, progress_callback, debug_dir, artifacts, input_folder,
             effective_bounds>>

lock_ignored(holder) == TRUE

\* threading.Lock: entering a with-block waits until nobody holds the lock.
lock_free(holder) == holder = "none"

registry_kept(holder) == holder

\* Leaving `with jobs_lock: job = jobs.get(job_id)` releases the lock.
lookup_exit(holder) == "none"

\* The job dictionary POST /analyze registers.
new_job(filename, workdir) ==
    [filename |-> filename, status |-> "queued", processed |-> 0,
     total |-> 0, message |-> "Queued", error |-> "None", result |-> <<>>,
     workdir |-> workdir, lock |-> "none"]

(***************************************************************************)
(* POST /analyze.                                                          *)
(***************************************************************************)
answer(t, code) ==
    [thread EXCEPT ![t].pc = "responded", ![t].response = [code |-> code]]

analyze_validate ==
    /\ thread["analyze"].pc = "validate"
    /\ thread' = IF rejected(request) THEN answer("analyze", 400)
                 ELSE [thread EXCEPT !["analyze"].pc = "mkdtemp"]
    /\ UNCHANGED <<libVars, request, jobs, jobs_lock, workdirs, invoked>>

\* workdir = tempfile.mkdtemp(prefix="skalu_job_")
analyze_mkdtemp ==
    /\ thread["analyze"].pc = "mkdtemp"
    /\ IF request.mkdtemp
       THEN /\ workdirs' = (Workdir :> TRUE) @@ workdirs
            /\ thread' = [thread EXCEPT !["analyze"].pc = "save"]
       ELSE /\ thread' = answer("analyze", 500)
            /\ UNCHANGED workdirs
    /\ UNCHANGED <<libVars, request, jobs, jobs_lock, invoked>>

\* uploaded_file.save(input_path); on failure shutil.rmtree(workdir)
analyze_save ==
    /\ thread["analyze"].pc = "save"
    /\ IF request.saves
       THEN /\ thread' = [thread EXCEPT !["analyze"].pc = "register"]
            /\ UNCHANGED workdirs
       ELSE /\ workdirs' = [workdirs EXCEPT ![Workdir] = FALSE]
            /\ thread' = answer("analyze", 500)
    /\ UNCHANGED <<libVars, request, jobs, jobs_lock, invoked>>

\* with jobs_lock:
analyze_enter_jobs_lock ==
    /\ thread["analyze"].pc = "register"
    /\ lock_free(jobs_lock)
    /\ jobs_lock' = "analyze"
    /\ thread' = [thread EXCEPT !["analyze"].pc = "insert"]
    /\ UNCHANGED <<libVars, request, jobs, workdirs, invoked>>

\*     jobs[job_id] = job
analyze_insert ==
    /\ thread["analyze"].pc = "insert"
    /\ jobs' = (JobId :> new_job(sanitized[request.filename], Workdir))
               @@ jobs
    /\ jobs_lock' = "none"
    /\ thread' = [thread EXCEPT !["analyze"].pc = "start",
                                !["analyze"].job_id = JobId]
    /\ UNCHANGED <<libVars, request, workdirs, invoked>>

\* thread = threading.Thread(target=_process_job, ...); thread.start()
analyze_start_thread ==
    /\ thread["analyze"].pc = "start"
    /\ thread' = [thread EXCEPT
                     !["analyze"].pc = "responded",
                     !["analyze"].response = [code |-> 200, job_id |-> JobId],
                     !["worker"].pc = "lookup",
                     !["worker"].job_id = JobId]
    /\ UNCHANGED <<libVars, request, jobs, jobs_lock, workdirs, invoked>>

(***************************************************************************)
(* with jobs_lock: job = jobs.get(job_id), at the head of _process_job and *)
(* of the three polling handlers.                                          *)
(***************************************************************************)
enter_jobs_lock(t) ==
    /\ thread[t].pc = "lookup"
    /\ lock_free(jobs_lock)
    /\ jobs_lock' = t
    /\ thread' = [thread EXCEPT ![t].pc = "get"]
    /\ UNCHANGED <<libVars, request, jobs, workdirs, invoked>>

jobs_get(t) ==
    /\ thread[t].pc = "get"
    /\ jobs_lock' = lookup_exit(jobs_lock)
    /\ thread' = [thread EXCEPT
                     ![t].pc = "found",
                     ![t].job = IF thread[t].job_id \in DOMAIN jobs
                                THEN thread[t].job_id ELSE "None"]
    /\ UNCHANGED <<libVars, request, jobs, workdirs, invoked>>

\* with job["lock"]: entered by thread t at the site from, which leads to
\* the site to.
enter_job_lock(t, from, to) ==
    /\ thread[t].pc = from
    /\ thread[t].job # "None"
    /\ lock_free(jobs[thread[t].job].lock)
    /\ jobs' = [jobs EXCEPT ![thread[t].job].lock = t]
    /\ thread' = [thread EXCEPT ![t].pc = to]
    /\ UNCHANGED <<libVars, request, jobs_lock, workdirs, invoked>>

(***************************************************************************)
(* _process_job, the worker thread.                                        *)
(***************************************************************************)
job_progress_message(done, total, suffix) ==
    IF total # 0
    THEN IF suffix = "pdf"
         THEN IF done >= total THEN "Finished all pages"
              ELSE "Processing page"
         ELSE IF done >= total THEN "Processing complete"
              ELSE "Processed items"
    ELSE IF suffix = "pdf" THEN "Preparing pages" ELSE "Processing image"

callback_status_reset(status) == "queued"

\* job["status"] = "processing" in progress_callback
callback_status(status) == "processing"

\* if not job: return
worker_found ==
    /\ thread["worker"].pc = "found"
    /\ thread' = [thread EXCEPT !["worker"].pc =
                     IF thread["worker"].job = "None" THEN "exit"
                     ELSE "begin"]
    /\ UNCHANGED <<libVars, request, jobs, jobs_lock, workdirs, invoked>>

\* job["status"] = "processing"; job["message"] = "Starting analysis"
worker_starting ==
    /\ thread["worker"].pc = "starting"
    /\ jobs' = [jobs EXCEPT ![thread["worker"].job] =
                   [@ EXCEPT !.status = "processing",
                             !.message = "Starting analysis",
                             !.lock = "none"]]
    /\ thread' = [thread EXCEPT !["worker"].pc = "process"]
    /\ UNCHANGED <<libVars, request, jobs_lock, workdirs, invoked>>

\* The call of process_pdf or process_single_image goes on when the
\* callback it has invoked has returned.
in_call ==
    /\ thread["worker"].pc = "process"
    /\ invoked = Len(progress)

job_process_pdf_open == in_call /\ process_pdf_open

job_process_pdf_page == in_call /\ process_pdf_page

job_process_pdf_write == in_call /\ process_pdf_write

job_process_single_image == in_call /\ process_single_image

\* progress_callback(done, total), inside its with job["lock"]
worker_callback ==
    /\ thread["worker"].pc = "in_callback"
    /\ LET done == progress[invoked + 1][1]
           total == progress[invoked + 1][2]
       IN  jobs' = [jobs EXCEPT ![thread["worker"].job] =
                       [@ EXCEPT !.processed = done,
                                 !.total = total,
                                 !.status = callback_status(@),
                                 !.message =
                                    job_progress_message(
                                        done, total,
                                        suffix_of(jobs[thread["worker"].job]
                                                      .filename)),
                                 !.lock = "none"]]
    /\ invoked' = invoked + 1
    /\ thread' = [thread EXCEPT !["worker"].pc = "process"]
    /\ UNCHANGED <<libVars, request, jobs_lock, workdirs>>

\* The call has returned or raised; `if not success: raise RuntimeError`.
worker_returned ==
    /\ in_call
    /\ pc = "done"
    /\ thread' = [thread EXCEPT !["worker"].pc =
                     IF raised \/ ~ret THEN "except" ELSE "finish"]
    /\ UNCHANGED <<libVars, request, jobs, jobs_lock, workdirs, invoked>>

\* The payload built from results.json and from the images the call left
\* in the working directory.
payload(filename) ==
    [result_data |-> output_json[1],
     detection_params |-> output_json[1].detection_params,
     processed_filename |-> filename,
     debug_groups |-> {a \in artifacts : a[1] = "debug_dir"},
     visualizations |-> {a \in artifacts : a[1] = "output_dir"}]

\* job["status"] = "finished"
\* job["processed"] = job.get("total", 0) or job.get("processed", 0)
\* job["message"] = "Processing complete"
worker_finishing ==
    /\ thread["worker"].pc = "finishing"
    /\ jobs' = [jobs EXCEPT ![thread["worker"].job] =
                   [@ EXCEPT !.status = "finished",
                             !.processed =
                                IF jobs[thread["worker"].job].total # 0
                                THEN jobs[thread["worker"].job].total
                                ELSE @,
                             !.message = "Processing complete"]]
    /\ thread' = [thread EXCEPT !["worker"].pc = "publishing"]
    /\ UNCHANGED <<libVars, request, jobs_lock, workdirs, invoked>>

cleanup_skipped_after_error(block) ==
    IF block = "except" THEN "exit" ELSE "cleanup"

\* finally: runs after the try block and after the except block.
finally_clause(block) == "cleanup"

\* job["result"] = payload
worker_publishing ==
    /\ thread["worker"].pc = "publishing"
    /\ jobs' = [jobs EXCEPT ![thread["worker"].job] =
                   [@ EXCEPT !.result =
                                <<payload(jobs[thread["worker"].job]
                                              .filename)>>,
                             !.lock = "none"]]
    /\ thread' = [thread EXCEPT !["worker"].pc = finally_clause("try")]
    /\ UNCHANGED <<libVars, request, jobs_lock, workdirs, invoked>>

\* except Exception as exc: ... job["status"] = "error"
worker_failing ==
    /\ thread["worker"].pc = "failing"
    /\ jobs' = [jobs EXCEPT ![thread["worker"].job].status = "error"]
    /\ thread' = [thread EXCEPT !["worker"].pc = "reporting"]
    /\ UNCHANGED <<libVars, request, jobs_lock, workdirs, invoked>>

\* job["error"] = str(exc); job["message"] = f"Failed: {exc}"
worker_reporting ==
    /\ thread["worker"].pc = "reporting"
    /\ jobs' = [jobs EXCEPT ![thread["worker"].job] =
                   [@ EXCEPT !.error =
                                IF raised THEN "raised by the call"
                                ELSE "Processing failed. Please try another file.",
                             !.message = "Failed",
                             !.lock = "none"]]
    /\ thread' = [thread EXCEPT !["worker"].pc = finally_clause("except")]
    /\ UNCHANGED <<libVars, request, jobs_lock, workdirs, invoked>>

\* shutil.rmtree(workdir, ignore_errors=True)
worker_rmtree ==
    /\ thread["worker"].pc = "cleanup"
    /\ workdirs' = [workdirs EXCEPT ![jobs[thread["worker"].job].workdir]
                                       = FALSE]
    /\ thread' = [thread EXCEPT !["worker"].pc = "finally"]
    /\ UNCHANGED <<libVars, request, jobs, jobs_lock, invoked>>

\* job["workdir"] = None
worker_clearing ==
    /\ thread["worker"].pc = "clearing"
    /\ jobs' = [jobs EXCEPT ![thread["worker"].job] =
                   [@ EXCEPT !.workdir = "None", !.lock = "none"]]
    /\ thread' = [thread EXCEPT !["worker"].pc = "exit"]
    /\ UNCHANGED <<libVars, request, jobs_lock, workdirs, invoked>>

(***************************************************************************)
(* GET /progress/<job_id>, /results/<job_id> and /download/<job_id>.  A    *)
(* handler that has answered keeps nothing but its response.               *)
(***************************************************************************)
answered(response) ==
    [pc |-> "idle", route |-> "none", job_id |-> "none", job |-> "None",
     response |-> response]

poll_request(t) ==
    /\ thread[t].pc = "idle"
    /\ \E r \in Routes, id \in {JobId, "unknown"} :
          thread' = [thread EXCEPT ![t] =
                        [pc |-> "lookup", route |-> r, job_id |-> id,
                         job |-> "None", response |-> <<>>]]
    /\ UNCHANGED <<libVars, request, jobs, jobs_lock, workdirs, invoked>>

\* if not job: return jsonify({"error": "Unknown job"}), 404
poll_unknown(t) ==
    /\ thread[t].pc = "found"
    /\ thread[t].job = "None"
    /\ thread' = [thread EXCEPT ![t] = answered([code |-> 404])]
    /\ UNCHANGED <<libVars, request, jobs, jobs_lock, workdirs, invoked>>

\* response = {"status": ..., "processed": ..., "total": ..., ...}
poll_progress_read(t) ==
    /\ thread[t].pc = "reading"
    /\ thread[t].route = "progress"
    /\ LET job == jobs[thread[t].job]
       IN  thread' = [thread EXCEPT
                         ![t].pc = "reading_on",
                         ![t].response =
                            [code |-> 200, status |-> job.status,
                             processed |-> job.processed,
                             total |-> job.total,
                             message |-> job.message]]
    /\ UNCHANGED <<libVars, request, jobs, jobs_lock, workdirs, invoked>>

\* if job["status"] == "error": response["error"] = job.get("error")
\* response["result_ready"] = job.get("status") == "finished"
poll_progress_answer(t) ==
    /\ thread[t].pc = "reading_on"
    /\ LET job == jobs[thread[t].job]
           so_far == thread[t].response
       IN  thread' = [thread EXCEPT ![t] =
                         answered([result_ready |-> job.status = "finished"]
                                  @@ (IF job.status = "error"
                                      THEN [error |-> job.error] @@ so_far
                                      ELSE so_far))]
    /\ jobs' = [jobs EXCEPT ![thread[t].job].lock = "none"]
    /\ UNCHANGED <<libVars, request, jobs_lock, workdirs, invoked>>

results_unchecked(route, job) ==
    [code |-> 200, body |-> job.result]

\* if job["status"] != "finished" or not job.get("result"): 400 or 202
\* else the payload (or its JSON text for /download)
results_response(route, job) ==
    IF job.status # "finished" \/ job.result = <<>>
    THEN IF job.status = "error" THEN [code |-> 400, error |-> job.error]
         ELSE [code |-> 202]
    ELSE [code |-> 200,
          body |-> IF route = "results" THEN job.result
                   ELSE <<job.result[1].result_data>>]

poll_results(t) ==
    /\ thread[t].pc = "reading"
    /\ thread[t].route \in {"results", "download"}
    /\ thread' = [thread EXCEPT ![t] =
                     answered(results_response(thread[t].route,
                                               jobs[thread[t].job]))]
    /\ jobs' = [jobs EXCEPT ![thread[t].job].lock = "none"]
    /\ UNCHANGED <<libVars, request, jobs_lock, workdirs, invoked>>

NextJobs ==
    \/ analyze_validate
    \/ analyze_mkdtemp
    \/ analyze_save
    \/ analyze_enter_jobs_lock
    \/ analyze_insert
    \/ analyze_start_thread
    \/ enter_jobs_lock("worker")
    \/ jobs_get("worker")
    \/ worker_found
    \/ enter_job_lock("worker", "begin", "starting")
    \/ worker_starting
    \/ job_process_pdf_open
    \/ job_process_pdf_page
    \/ job_process_pdf_write
    \/ job_process_single_image
    \/ (thread["worker"].pc = "process" /\ invoked < Len(progress)
        /\ enter_job_lock("worker", "process", "in_callback"))
    \/ worker_callback
    \/ worker_returned
    \/ enter_job_lock("worker", "finish", "finishing")
    \/ worker_finishing
    \/ worker_publishing
    \/ enter_job_lock("worker", "except", "failing")
    \/ worker_failing
    \/ worker_reporting
    \/ worker_rmtree
    \/ enter_job_lock("worker", "finally", "clearing")
    \/ worker_clearing
    \/ \E t \in Pollers :
          \/ poll_request(t)
          \/ enter_jobs_lock(t)
          \/ jobs_get(t)
          \/ poll_unknown(t)
          \/ enter_job_lock(t, "found", "reading")
          \/ poll_progress_read(t)
          \/ poll_progress_answer(t)
          \/ poll_results(t)

SpecJobs == InitJobs /\ [][NextJobs]_vars

(***************************************************************************)
(* Scheduling.  Every thread that can run is given the processor again     *)
(* and again, and a thread waiting for a lock gets it when the lock keeps  *)
(* being released: the request thread and the worker make their steps      *)
(* whenever these are possible again and again, and a polling handler      *)
(* that holds a lock goes on to release it.  The call of the library       *)
(* returns or raises.  Nothing obliges a client to poll.                   *)
(***************************************************************************)
AnalyzeNext ==
    \/ analyze_validate
    \/ analyze_mkdtemp
    \/ analyze_save
    \/ analyze_enter_jobs_lock
    \/ analyze_insert
    \/ analyze_start_thread

WorkerNext ==
    \/ enter_jobs_lock("worker")
    \/ jobs_get("worker")
    \/ worker_found
    \/ enter_job_lock("worker", "begin", "starting")
    \/ worker_starting
    \/ job_process_pdf_open
    \/ job_process_pdf_page
    \/ job_process_pdf_write
    \/ job_process_single_image
    \/ (thread["worker"].pc = "process" /\ invoked < Len(progress)
        /\ enter_job_lock("worker", "process", "in_callback"))
    \/ worker_callback
    \/ worker_returned
    \/ enter_job_lock("worker", "finish", "finishing")
    \/ worker_finishing
    \/ worker_publishing
    \/ enter_job_lock("worker", "except", "failing")
    \/ worker_failing
    \/ worker_reporting
    \/ worker_rmtree
    \/ enter_job_lock("worker", "finally", "clearing")
    \/ worker_clearing

PollerInside(t) ==
    \/ jobs_get(t)
    \/ poll_progress_read(t)
    \/ poll_progress_answer(t)
    \/ poll_results(t)

FairSpecJobs ==
    /\ SpecJobs
    /\ SF_vars(AnalyzeNext)
    /\ SF_vars(WorkerNext)
    /\ \A t \in Pollers : WF_vars(PollerInside(t))

\* The request has registered its job.
Accepted == JobId \in DOMAIN jobs

\* The job has its final status and no working directory any more.
Ended ==
    /\ Accepted
    /\ jobs[JobId].status \in {"finished", "error"}
    /\ jobs[JobId].workdir = "None"
    /\ ~workdirs[Workdir]

\* C22: every job accepted by POST /analyze reaches the status finished or
\* error, and on every path its working directory is removed and its
\* workdir field set to None afterwards: no job ends with its workdir
\* still recorded.
C22_JobsEndAndCleanUp ==
    /\ Accepted ~> Ended
    /\ [](thread["worker"].pc = "exit" => Ended)

\* A job that failed because the call raised has ended, its directory
\* removed.
C22_Witness ==
    /\ Ended
    /\ thread["worker"].pc = "exit"
    /\ jobs[JobId].status = "error"
    /\ raised
    /\ workdirs = (Workdir :> FALSE)


(***************************************************************************)
(* The job lock.                                                           *)
(***************************************************************************)
\* The fields of a job record the lock is there for.
Guarded(job) ==
    <<job.status, job.processed, job.total, job.message, job.error,
      job.result>>

\* The places of the worker (its callback included) and of the polling
\* handlers where these fields are read or written.
CriticalSites ==
    {"starting", "in_callback", "finishing", "publishing", "failing",
     "reporting", "clearing", "reading", "reading_on"}

InCritical(t) == thread[t].pc \in CriticalSites

\* Thread t holds the lock of the job it works on.
HoldsJobLock(t) ==
    /\ thread[t].job \in DOMAIN jobs
    /\ jobs[thread[t].job].lock = t

\* What /progress answers is the record as it is while the handler holds
\* the lock.
ProgressAnswers(t) ==
    (thread[t].pc = "reading_on" /\ thread'[t].pc = "idle") =>
        LET job == jobs[thread[t].job]
            r == thread'[t].response
        IN  /\ r.status = job.status
            /\ r.processed = job.processed
            /\ r.total = job.total
            /\ r.message = job.message
            /\ r.result_ready = (job.status = "finished")
            /\ ("error" \in DOMAIN r) = (job.status = "error")
            /\ "error" \in DOMAIN r => r.error = job.error

\* C23: every read and write of status, processed, total, message, error
\* and result by the worker, its callback and the polling handlers happens
\* while the thread holds the job's lock; two threads are never inside a
\* critical section of the same job together; and a poll response
\* reflects one state of the record.
C23_JobFieldsUnderTheLock ==
    /\ [](\A t \in Threads : InCritical(t) => HoldsJobLock(t))
    /\ [](\A t, u \in Threads :
            (t # u /\ InCritical(t) /\ InCritical(u)) =>
                thread[t].job # thread[u].job)
    /\ [][Accepted =>
            /\ Guarded(jobs'[JobId]) # Guarded(jobs[JobId]) =>
                  \E t \in Threads : InCritical(t) /\ HoldsJobLock(t)
            /\ \A t \in Pollers :
                  /\ ProgressAnswers(t)
                  /\ thread'[t].response # thread[t].response =>
                        \/ thread'[t].pc = "lookup"
                        \/ thread'[t].response = [code |-> 404]
                        \/ InCritical(t) /\ HoldsJobLock(t)]_vars

\* A /progress handler holds the lock in the middle of its reading while
\* the worker's callback waits for it.
C23_Witness ==
    /\ thread["poll1"].pc = "reading_on"
    /\ HoldsJobLock("poll1")
    /\ thread["worker"].pc = "process"
    /\ invoked < Len(progress)


(***************************************************************************)
(* The status of a job.                                                    *)
(***************************************************************************)
\* The changes of status the worker makes.
StatusMoves ==
    {<<"queued", "processing">>, <<"processing", "finished">>,
     <<"processing", "error">>}

\* C24: the status of a job moves only from queued to processing and from
\* processing to finished or to error; a job starts queued, and a finished
\* or failed job keeps its status, whatever the progress callback does.
C24_StatusMovesForward ==
    /\ [][(~Accepted /\ Accepted') => jobs'[JobId].status = "queued"]_vars
    /\ [][Accepted =>
            \/ jobs'[JobId].status = jobs[JobId].status
            \/ <<jobs[JobId].status, jobs'[JobId].status>> \in StatusMoves]_vars
    /\ [][(Accepted /\ jobs[JobId].status \in {"finished", "error"}) =>
            jobs'[JobId].status = jobs[JobId].status]_vars

\* A job has finished after its callback recorded progress on two pages.
C24_Witness ==
    /\ Accepted
    /\ jobs[JobId].status = "finished"
    /\ invoked >= 3
    /\ jobs[JobId].total = 2


(***************************************************************************)
(* The result of a job.                                                    *)
(***************************************************************************)
\* The record as a thread that takes the job lock finds it.
AtRest(job) == job.lock # "worker"

\* What /results and /download answer to thread t, which holds the lock.
ResultsAnswers(t) ==
    (thread[t].pc = "reading" /\ thread[t].route \in {"results", "download"}
     /\ thread'[t].pc = "idle") =>
        LET job == jobs[thread[t].job]
            r == thread'[t].response
        IN  /\ r.code = CASE job.status = "finished" -> 200
                          [] job.status = "error" -> 400
                          [] OTHER -> 202
            /\ r.code = 200 => job.result # <<>>
            /\ (r.code = 200 /\ thread[t].route = "results") =>
                  r.body = job.result
            /\ r.code = 400 => r.error = job.error

\* jobs.get(job_id) finds the record of a registered id and nothing else.
Looked(t) ==
    (thread[t].pc = "get" /\ thread'[t].pc = "found") =>
        (thread'[t].job = "None") = (thread[t].job_id \notin DOMAIN jobs)

\* What a handler answers for an id the registry does not hold.
UnknownAnswers(t) ==
    (thread[t].pc = "found" /\ thread'[t].pc = "idle") =>
        /\ thread[t].job = "None"
        /\ thread'[t].response = [code |-> 404]

WaitsForRegistry(t) ==
    \/ t = "analyze" /\ thread[t].pc = "register"
    \/ t # "analyze" /\ thread[t].pc = "lookup"

\* Thread t is at a `with job["lock"]:` it has not entered yet.
WaitsForJob(t) ==
    \/ t = "worker" /\ thread[t].pc \in {"begin", "finish", "except",
                                         "finally"}
    \/ t = "worker" /\ thread[t].pc = "process" /\ invoked < Len(progress)
    \/ t \in Pollers /\ thread[t].pc = "found" /\ thread[t].job # "None"

HoldsRegistry(t) == jobs_lock = t

HoldsAJob(t) == \E id \in DOMAIN jobs : jobs[id].lock = t

Waits(t) == WaitsForRegistry(t) \/ WaitsForJob(t)

\* C26: no thread holds the registry lock and a job lock together, and no
\* thread waits for a lock while it holds one: the registry lock is
\* released before a job lock is asked for.  So the holder of a lock
\* another thread waits for is never waiting itself, and the threads
\* cannot deadlock.
C26_LocksAreNeverNested ==
    \A t \in Threads :
        /\ ~(HoldsRegistry(t) /\ HoldsAJob(t))
        /\ Waits(t) => ~HoldsRegistry(t) /\ ~HoldsAJob(t)
        /\ (WaitsForRegistry(t) /\ jobs_lock # "none") =>
              jobs_lock \in Threads /\ ~Waits(jobs_lock)
        /\ WaitsForJob(t) =>
              \A u \in Threads :
                  jobs[thread[t].job].lock = u => ~Waits(u)

\* The request waits to register its job while a polling handler holds
\* the registry lock.
C26_Witness ==
    /\ WaitsForRegistry("analyze")
    /\ HoldsRegistry("poll1")


(***************************************************************************)
(* What POST /analyze refuses.                                             *)
(***************************************************************************)
\* What follows the last dot of a name, lower-cased; <<>> when the name
\* has no dot or ends in one.
Extension(name) ==
    IF last_dot(name) = 0 THEN <<>>
    ELSE [i \in 1..(Len(name) - last_dot(name)) |->
             lower(name[last_dot(name) + i])]

InAllowList(name) ==
    /\ Len(Extension(name)) = 1
    /\ Extension(name)[1] \in
          {"pdf", "png", "jpg", "jpeg", "bmp", "tiff", "webp"}

\* The request thread has answered.
Responded == thread["analyze"].pc = "responded"

\* Nothing of a job exists: no record, no worker, no working directory.
NothingCreated ==
    /\ jobs = <<>>
    /\ thread["worker"].pc = "unstarted"
    /\ workdirs = <<>>

\* The answer to a request whose upload could not be saved.
SaveFailureAnswered ==
    (Responded /\ request.file /\ InAllowList(sanitized[request.filename])
     /\ request.mkdtemp /\ ~request.saves) =>
        /\ thread["analyze"].response.code = 500
        /\ workdirs = (Workdir :> FALSE)
        /\ jobs = <<>>
        /\ thread["worker"].pc = "unstarted"

\* C27, as stated: a request with no file, an empty filename or a filename
\* whose extension is not in the allow-list is answered 400 and creates
\* nothing; a failed save is answered 500, the working directory removed
\* and no job registered.
C27_UploadedNameIsChecked ==
    /\ (Responded /\ (~request.file \/ request.filename = <<>>
                      \/ ~InAllowList(request.filename))) =>
          thread["analyze"].response.code = 400 /\ NothingCreated
    /\ SaveFailureAnswered

\* C27, amended: the extension checked is that of the sanitized filename,
\* secure_filename(uploaded_file.filename).  A request with no file, an
\* empty filename or a sanitized filename whose extension is not in the
\* allow-list, and no other, is answered 400, and creates nothing; a
\* failed save is answered 500, the working directory removed and no job
\* registered.
C27_SanitizedNameIsChecked ==
    /\ Responded =>
          (thread["analyze"].response.code = 400) =
             (\/ ~request.file
              \/ request.filename = <<>>
              \/ ~InAllowList(sanitized[request.filename]))
    /\ (Responded /\ thread["analyze"].response.code = 400) => NothingCreated
    /\ (~request.file \/ request.filename = <<>>
        \/ ~InAllowList(sanitized[request.filename])) => NothingCreated
    /\ SaveFailureAnswered

\* An upload named a.txt has been answered 400.
C27_Witness ==
    /\ Responded
    /\ request.filename = <<"a", ".", "txt">>
    /\ thread["analyze"].response.code = 400
    /\ NothingCreated


(***************************************************************************)
(* The progress a job reports.                                             *)
(***************************************************************************)
\* process_pdf has returned True.
PdfReturnedTrue == call = "process_pdf" /\ pc = "done" /\ ret /\ ~raised

\* The sequence noted runs from (0, n) to (n, n) with total n throughout
\* and done never decreasing.
RunsFromZeroTo(noted, n) ==
    /\ Len(noted) >= 2
    /\ noted[1] = <<0, n>>
    /\ noted[Len(noted)] = <<n, n>>
    /\ \A i \in 1..Len(noted) :
          /\ noted[i][2] = n
          /\ noted[i][1] \in 0..n
    /\ \A i \in 1..(Len(noted) - 1) : noted[i][1] <= noted[i + 1][1]

\* C28: when process_pdf on N pages returns True, the pairs given to the
\* progress callback start with (0, N), keep total = N, have done
\* non-decreasing within 0..N and end with (N, N), also when pages were
\* skipped; and the record of a job has processed <= total whenever
\* total > 0 and processed = total once it is finished.
C28_ProgressRunsToTheTotal ==
    /\ PdfReturnedTrue => RunsFromZeroTo(progress, Len(doc.pages))
    /\ Accepted =>
          /\ jobs[JobId].total > 0 =>
                jobs[JobId].processed <= jobs[JobId].total
          /\ jobs[JobId].status = "finished" =>
                jobs[JobId].processed = jobs[JobId].total
          /\ thread["worker"].pc = "finishing" =>
                jobs[JobId].processed = jobs[JobId].total

\* A job on a document of three pages, the second of which was skipped,
\* has finished.
C28_Witness ==
    /\ PdfReturnedTrue
    /\ progress = <<<<0, 3>>, <<1, 3>>, <<3, 3>>, <<3, 3>>>>
    /\ Accepted
    /\ jobs[JobId].status = "finished"
    /\ jobs[JobId].processed = 3

=============================================================================
